---- MODULE Spec2Model ----
(***************************************************************************)
(* Tracing core of the agents SDK (src/src/tracing): spans, the ambient    *)
(* per-thread context and its scoped guards, traces, the trace registry    *)
(* (TraceManager), the span factory and the processor pipeline; and the    *)
(* session cache and session manager of src/src/memory.                    *)
(*                                                                         *)
(* Conventions.  std::nullopt is None (0) for ids and timestamps; a null   *)
(* processor pointer is NoProcessor; an optional SpanError or an optional  *)
(* JSON value is the empty sequence <<>> when absent, <<v>> when present.  *)
(* Ids are integers: caller-chosen trace ids are 1..NumTraceIds, ids made  *)
(* by generate_trace_id are GenBase + n (fresh), span ids made by          *)
(* generate_span_id are 1, 2, ... (fresh), and the NoOpSpan's "no-op" id   *)
(* is NoOpId.  current_time_iso() reads the clock `now`.                   *)
(*                                                                         *)
(* Specifications.  Spec: a TraceManager under create_trace, finish_trace  *)
(* and export_trace.  SpecSpan: a SpanFactory, the global trace manager    *)
(* and the span the caller holds.  SpecE2E: trace 1 with an Agent span and *)
(* a Function span under it, finished and exported.  SpecScope: the        *)
(* caller's context under scoped guards and direct context calls.          *)
(* SpecComposite: a CompositeProcessor whose sub-processors may throw.     *)
(* SpecThreads: two threads, each with its own context.  SpecShared: two   *)
(* threads on one TraceManager, set_processor included.  SpecTrace: the    *)
(* spans of the active traces and the root/child queries.  SpecError: a    *)
(* span under set_error and finish.  SpecFactory: the factory's resolution *)
(* of trace id, parent id and processor.  SpecWrappers: shutdown() of the  *)
(* Composite, Filtered, Async and Function processors, and the             *)
(* AsyncProcessor's process calls.                                         *)
(* SpecFiltered: a FilteredProcessor under single and batch calls.         *)
(* SpecTraceFinish: Trace::finish on active traces as the clock advances.  *)
(* SpecWriters: two threads adding spans to one trace.  SpecStats:         *)
(* get_stats over spans of several types.  SpecCurrent:                    *)
(* start_current_trace / finish_current_trace.  SpecGlobal: the life of    *)
(* the global trace manager.  SpecSnapshot: context snapshots and their    *)
(* restoring guards.  SpecCache: the SessionCache of src/src/memory.       *)
(* SpecNested: an outer and an inner span started and finished in LIFO     *)
(* order.                                                                  *)
(* SpecGuard: TraceGuard objects constructed and destroyed around context  *)
(* calls.  SpecLifecycle: one span started and finished any number of      *)
(* times.  SpecHeld: two threads holding Trace pointers the registry       *)
(* returned.  SpecSink: finish_trace with a processor that may throw.      *)
(* SpecManager: two threads calling SessionManager::get_or_create_session. *)
(***************************************************************************)
EXTENDS Integers, Sequences, FiniteSets, TLC

None == 0
NoProcessor == "nullptr"
NoOpId == -1
GenBase == 100

\* ---- bounds of the model ----
MaxTime == 2            \* the clock runs 1..MaxTime
NumTraceIds == 2        \* caller-chosen trace ids of the registry specification
MaxGen == 1             \* ids generate_trace_id may hand out
MaxCap == 2             \* max_finished_traces is drawn from 0..MaxCap
MaxFinishes == 3        \* finish_trace calls that find an active trace
MaxSpans == 1           \* spans the factory makes in one run
MaxSpanFinishes == 2    \* finish() calls on one span
MaxDepth == 2           \* scoped-context guards alive at once in one flow
MaxSubs == 3            \* sub-processors of the CompositeProcessor
MaxCalls == 3           \* calls made on the CompositeProcessor and the wrappers
MaxTraceSpans == 3      \* spans add_span_to_trace stores in one trace
MaxFilters == 2         \* filters of the FilteredProcessor
MaxBatch == 2           \* records in one batch call
MaxFilterCalls == 1     \* calls made on the FilteredProcessor
MaxCacheSize == 2       \* max_size of the SessionCache is drawn from 0..MaxCacheSize
MaxGets == 2            \* get calls made on the SessionCache
MaxSessionCalls == 2    \* get_or_create_session calls of one thread

\* The default of TraceManager's max_finished_traces argument.
DefaultMaxFinishedTraces == 1000
\* The defaults of SessionCache's max_size and ttl (minutes) arguments.
DefaultCacheSize == 100
DefaultTtl == 30

VARIABLES
    now,            \* the system clock read by current_time_iso()
    pc,             \* per flow (thread): where it is inside a registry call
    callTrace,      \* per flow: the Trace the call in progress works on
    holds,          \* per flow: the mutexes it holds
    context_,       \* per flow: ThreadLocalContext::context_
    instance_,      \* GlobalTraceManager::instance_ is non-null
    active_traces_, \* TraceManager::active_traces_   (id -> Trace)
    finished_traces_, \* TraceManager::finished_traces_ (oldest first)
    processor_,     \* TraceManager::processor_
    max_finished_traces_, \* TraceManager::max_finished_traces_
    genCount,       \* number of ids handed out by generate_trace_id
    spanCount,      \* number of spans the factory has made
    spans,          \* the span objects the caller holds, by creation number
    default_processor_, \* SpanFactory::default_processor_
    traceSink,      \* per processor: the records process_trace received
    spanSink,       \* per processor: how many process_span calls each held span made
    finishHist,     \* ids for which finish_trace found an active trace, in order
    scopes,         \* per flow: the ScopedContext guards alive, innermost last
    snapshots,      \* per flow: the context snapshot the caller keeps, if any
    processors_,    \* CompositeProcessor::processors_ (registration order)
    subReceived,    \* per sub-processor: the calls made on it, in order
    callCount,      \* number of calls made on the CompositeProcessor and the wrappers
    subShutdowns,   \* per sub-processor: how many times its shutdown() ran
    wrapped,        \* per wrapper: what the processor (or handler) under it received
    shutdown_handler_, \* FunctionProcessor::shutdown_handler_ is non-null
    filters_,       \* FilteredProcessor::filters_: per filter, the records it accepts
    cache_,         \* SessionCache::cache_: session id -> session
    access_times_,  \* SessionCache::access_times_: session id -> time of last access
    max_size_,      \* SessionCache::max_size_
    ttl_,           \* SessionCache::ttl_
    hits_,          \* SessionCache::hits_
    misses_,        \* SessionCache::misses_
    traceGuards,    \* per flow: the TraceGuard objects alive, innermost last
    sessions_,      \* SessionManager::sessions_: session id -> Session object
    sessionsMade,   \* number of Session objects made by the SessionManager
    received,       \* per flow: its get_or_create_session calls and what they returned
    lastOp          \* the call that made the last step, and what it returned

flowVars == <<pc, callTrace, holds>>
regVars == <<instance_, active_traces_, finished_traces_, processor_, max_finished_traces_>>
spanVars == <<spanCount, spans, default_processor_>>
sinkVars == <<traceSink, spanSink>>
scopeVars == <<scopes, snapshots>>
compVars == <<processors_, subReceived, callCount, subShutdowns, wrapped, shutdown_handler_,
             filters_>>
\* everything but the caller's context, its guards and the composite
cacheVars == <<cache_, access_times_, max_size_, ttl_, hits_, misses_>>
guardVars == <<traceGuards>>
sessionVars == <<sessions_, sessionsMade, received>>
tracingVars == <<now, pc, callTrace, holds, regVars, genCount, spanVars, sinkVars, finishHist>>

vars == <<now, flowVars, context_, regVars, genCount, spanVars, sinkVars, finishHist,
         scopeVars, compVars, cacheVars, guardVars, sessionVars, lastOp>>

Processors == {"P1", "P2"}
\* The wrappers over one processor (or one handler), and the processor under a
\* wrapper before any call: the calls it received and its shutdown() count.
Wrappers == {"FilteredProcessor", "AsyncProcessor", "FunctionProcessor"}
Untouched == [received |-> <<>>, shutdowns |-> 0]
\* A SpanError: its message and its optional data map; a std::any value of the
\* map is its held type and its content.
Errors == { [message |-> "boom",
             data |-> <<[k |-> [type |-> "std::string", value |-> "v"]]>>] }
Flows == {1}

Min(a, b) == IF a < b THEN a ELSE b

current_time_iso == now

\* ---- Ambient context (scope.h) ----

\* A TracingContext holding the three tracing keys; an absent key is None /
\* FALSE (TRACE_DISABLED is only ever stored as true).
EmptyContext == [current_trace_id |-> None, current_span_id |-> None, trace_disabled |-> FALSE]

get_current_trace_id(c) == c.current_trace_id
get_current_span_id(c) == c.current_span_id
is_trace_disabled(c) == c.trace_disabled

set_current_trace_id(c, id) == [c EXCEPT !.current_trace_id = id]
set_current_span_id(c, id) == [c EXCEPT !.current_span_id = id]
reset_current_trace(c) == [c EXCEPT !.current_trace_id = None]
reset_current_span(c) == [c EXCEPT !.current_span_id = None]

\* ---- Spans (spans.h, spans.cpp) ----

SpanImpl(trace_id, span_id, parent_id, type, processor) ==
    [kind |-> "real", trace_id_ |-> trace_id, span_id_ |-> span_id,
     parent_id_ |-> parent_id, type |-> type, started_at_ |-> None,
     ended_at_ |-> None, error_ |-> <<>>, processor_ |-> processor,
     is_current_ |-> FALSE, finishes |-> 0, madeDisabled |-> FALSE]

\* The ghost fields of a span: finishes counts its finish() calls, madeDisabled
\* tells whether the ambient context was disabled when the factory made it.

\* A NoOpSpan has only its span data and is_current_; the other fields are unused.
NoOpSpan(type) ==
    [kind |-> "noop", trace_id_ |-> None, span_id_ |-> None,
     parent_id_ |-> None, type |-> type, started_at_ |-> None,
     ended_at_ |-> None, error_ |-> <<>>, processor_ |-> NoProcessor,
     is_current_ |-> FALSE, finishes |-> 0, madeDisabled |-> FALSE]

get_trace_id(sp) == IF sp.kind = "noop" THEN NoOpId ELSE sp.trace_id_
get_span_id(sp) == IF sp.kind = "noop" THEN NoOpId ELSE sp.span_id_
get_parent_id(sp) == IF sp.kind = "noop" THEN None ELSE sp.parent_id_
get_started_at(sp) == IF sp.kind = "noop" THEN None ELSE sp.started_at_
get_ended_at(sp) == IF sp.kind = "noop" THEN None ELSE sp.ended_at_
get_error(sp) == IF sp.kind = "noop" THEN <<>> ELSE sp.error_

\* The std::any types export_span converts; every other held type is exported
\* as the string "unsupported_type".
JsonAnyTypes == {"std::string", "int", "double", "bool"}

AnyToJson(value) == IF value.type \in JsonAnyTypes THEN value.value ELSE "unsupported_type"

\* The "error" member of an exported record: absent without an error, else the
\* message and, when the error has data, each entry converted.
ErrorJson(error) ==
    IF error # <<>>
    THEN <<[message |-> error[1].message,
            data |-> IF error[1].data # <<>>
                     THEN <<[key \in DOMAIN error[1].data[1] |-> AnyToJson(error[1].data[1][key])]>>
                     ELSE <<>>]>>
    ELSE <<>>

\* Span::export_span: absent for a NoOpSpan, the JSON record for a SpanImpl.
export_span(sp) ==
    IF sp.kind = "noop" THEN <<>>
    ELSE <<[trace_id |-> sp.trace_id_, span_id |-> sp.span_id_,
            parent_id |-> sp.parent_id_, started_at |-> sp.started_at_,
            ended_at |-> sp.ended_at_, span_data |-> [type |-> sp.type],
            error |-> ErrorJson(sp.error_)]>>

\* start(mark_as_current): the span after the call, and the caller's context.
Span_start(sp, mark_as_current) ==
    IF sp.kind = "noop"
    THEN [sp EXCEPT !.is_current_ = mark_as_current]
    ELSE [sp EXCEPT !.started_at_ = current_time_iso,
                    !.is_current_ = IF mark_as_current THEN TRUE ELSE @]

ContextAfterStart(c, sp, mark_as_current) ==
    IF sp.kind = "real" /\ mark_as_current
    THEN set_current_trace_id(set_current_span_id(c, sp.span_id_), sp.trace_id_)
    ELSE c

\* finish(reset_current): the span after the call, the caller's context, and
\* the record handed to the span's processor (<<>> when none is handed over).
Span_finish(sp, reset_current) ==
    IF sp.kind = "noop"
    THEN [sp EXCEPT !.is_current_ = IF reset_current THEN FALSE ELSE @,
                    !.finishes = @ + 1]
    ELSE [sp EXCEPT !.ended_at_ = current_time_iso,
                    !.is_current_ = IF reset_current \/ sp.is_current_ THEN FALSE ELSE @,
                    !.finishes = @ + 1]

ContextAfterFinish(c, sp, reset_current) ==
    IF sp.kind = "real" /\ (reset_current \/ sp.is_current_)
    THEN reset_current_trace(reset_current_span(c))
    ELSE c

Submitted(sp, reset_current) ==
    IF sp.kind = "real" /\ sp.processor_ # NoProcessor
    THEN export_span(Span_finish(sp, reset_current))
    ELSE <<>>

\* ---- Trace (traces.h, traces.cpp) ----

Trace(id) ==
    [trace_id |-> id, spans_ |-> <<>>, started_at_ |-> current_time_iso,
     ended_at_ |-> None, is_finished_ |-> FALSE]

\* The snapshot the trace keeps of a span: every field read through the getters.
AnySpan(span) ==
    [trace_id |-> get_trace_id(span), span_id |-> get_span_id(span),
     parent_id |-> get_parent_id(span), type |-> span.type,
     started_at |-> get_started_at(span), ended_at |-> get_ended_at(span),
     error |-> get_error(span)]

\* An add_span that stores the new record in front of the others.
add_span_prepends(tr, span) ==
    [tr EXCEPT !.spans_ = <<AnySpan(span)>> \o @]

add_span(tr, span) ==
    LET pushed == Append(tr.spans_, AnySpan(span))
    IN [tr EXCEPT !.spans_ = pushed,
                  !.started_at_ = IF Len(pushed) = 1 /\ tr.started_at_ = None
                                  THEN current_time_iso ELSE @]

get_spans(tr) == tr.spans_

\* A get_root_spans with the test on parent_id inverted.
get_root_spans_inverted(tr) == SelectSeq(tr.spans_, LAMBDA s : s.parent_id # None)

get_root_spans(tr) == SelectSeq(tr.spans_, LAMBDA s : s.parent_id = None)

get_child_spans(tr, parent_span_id) ==
    SelectSeq(tr.spans_, LAMBDA s : s.parent_id # None /\ s.parent_id = parent_span_id)

\* A finish() that stamps ended_at on every call.
Trace_finish_restamps(tr) ==
    [tr EXCEPT !.is_finished_ = TRUE, !.ended_at_ = current_time_iso]

Trace_finish(tr) ==
    IF ~tr.is_finished_
    THEN [tr EXCEPT !.is_finished_ = TRUE, !.ended_at_ = current_time_iso]
    ELSE tr

get_duration(tr) ==
    IF tr.started_at_ # None /\ tr.ended_at_ # None THEN 1000 ELSE None

\* A get_stats that counts every span as an error span.
get_stats_counts_all_as_errors(tr) ==
    [total_spans |-> Len(tr.spans_),
     error_spans |-> Len(tr.spans_),
     duration    |-> get_duration(tr),
     span_types  |-> [ty \in {tr.spans_[i].type : i \in 1..Len(tr.spans_)} |->
                        Cardinality({i \in 1..Len(tr.spans_) : tr.spans_[i].type = ty})]]

get_stats(tr) ==
    [total_spans |-> Len(tr.spans_),
     error_spans |-> Cardinality({i \in 1..Len(tr.spans_) : tr.spans_[i].error # <<>>}),
     duration    |-> get_duration(tr),
     span_types  |-> [ty \in {tr.spans_[i].type : i \in 1..Len(tr.spans_)} |->
                        Cardinality({i \in 1..Len(tr.spans_) : tr.spans_[i].type = ty})]]

\* AnySpan::export_span: the JSON record of a stored span.
AnySpan_export_span(s) ==
    <<[trace_id |-> s.trace_id, span_id |-> s.span_id, parent_id |-> s.parent_id,
       started_at |-> s.started_at, ended_at |-> s.ended_at,
       span_data |-> [type |-> s.type], error |-> ErrorJson(s.error)]>>

RECURSIVE ExportSpans(_)
ExportSpans(ss) ==
    IF ss = <<>> THEN <<>>
    ELSE LET span_json == AnySpan_export_span(Head(ss))
         IN (IF span_json # <<>> THEN <<span_json[1]>> ELSE <<>>) \o ExportSpans(Tail(ss))

\* The record export_trace builds once get_stats has returned.
ExportRecord(tr) ==
    LET stats == get_stats(tr)
    IN [trace_id |-> tr.trace_id, started_at |-> tr.started_at_,
        ended_at |-> tr.ended_at_, is_finished |-> tr.is_finished_,
        spans |-> ExportSpans(tr.spans_),
        stats |-> [total_spans |-> stats.total_spans,
                   error_spans |-> stats.error_spans,
                   duration_ms |-> stats.duration,
                   span_types  |-> stats.span_types]]

\* export_trace locks spans_mutex_ (a std::mutex) and, still holding it, calls
\* get_stats, which locks spans_mutex_ again.  Locking a std::mutex the thread
\* already owns is undefined; what builds do: never return ("deadlock"),
\* throw std::system_error, which export_trace catches and turns into
\* std::nullopt ("system_error"), or let the second lock through ("relock").
RelockOutcomes == {"deadlock", "system_error", "relock"}

export_trace_result(tr, outcome) ==
    IF outcome = "relock" THEN <<ExportRecord(tr)>> ELSE <<>>

\* ---- TraceManager (traces.h, traces.cpp) ----

\* A cleanup that erases from the end of the list (the newest traces).
cleanup_erases_newest(fin, cap) ==
    IF Len(fin) > cap THEN SubSeq(fin, 1, cap) ELSE fin

cleanup_finished_traces(fin, cap) ==
    IF Len(fin) > cap
    THEN SubSeq(fin, (Len(fin) - cap) + 1, Len(fin))
    ELSE fin

generate_trace_id == GenBase + genCount + 1
generate_span_id == spanCount + 1

get_finished_trace_ids == [i \in 1..Len(finished_traces_) |-> finished_traces_[i].trace_id]
get_active_trace_ids == DOMAIN active_traces_

Idle(t) == pc[t] = "idle"
MutexFree(m) == \A u \in DOMAIN holds : m \notin holds[u]

Op(name, t, id, sp, found, res, nsub) ==
    [op |-> name, flow |-> t, trace |-> id, span |-> sp, found |-> found,
     result |-> res, nsub |-> nsub]

WithTrace(act, id, tr) == [i \in DOMAIN act \cup {id} |-> IF i = id THEN tr ELSE act[i]]
WithoutTrace(act, id) == [i \in DOMAIN act \ {id} |-> act[i]]

\* The spans the caller holds after the factory returned span number k: the
\* new span alone when it is assigned to the variable that held the old one.
HeldSpans(held, k, span, replace) ==
    [i \in (IF replace THEN {} ELSE DOMAIN held) \cup {k} |-> IF i = k THEN span ELSE held[i]]

\* The clock advances between calls.
Tick ==
    /\ now < MaxTime
    /\ now' = now + 1
    /\ lastOp' = Op("tick", 0, None, 0, FALSE, <<>>, 0)
    /\ UNCHANGED <<scopeVars, compVars, cacheVars, guardVars, sessionVars,
                   flowVars, context_, regVars, genCount, spanVars, sinkVars, finishHist>>

\* create_trace(trace_id): trace_id = None asks for a generated id.  A trace
\* already active under the id is replaced by the new one.
create_trace(t, trace_id) ==
    /\ Idle(t) /\ MutexFree("traces_mutex_")
    /\ trace_id = None => genCount < MaxGen
    /\ LET id == IF trace_id # None THEN trace_id ELSE generate_trace_id
       IN /\ active_traces_' = WithTrace(active_traces_, id, Trace(id))
          /\ genCount' = IF trace_id = None THEN genCount + 1 ELSE genCount
          /\ lastOp' = Op("create_trace", t, id, 0, FALSE, <<>>, 0)
    /\ UNCHANGED <<scopeVars, compVars, cacheVars, guardVars, sessionVars,
                   now, flowVars, context_, instance_, finished_traces_, processor_,
                   max_finished_traces_, spanVars, sinkVars, finishHist>>

\* The tail of finish_trace: hand the export to the processor, move the trace
\* to the finished list, evict.
FinishMove(t, tr, exported) ==
    /\ traceSink' = IF processor_ # NoProcessor /\ exported # <<>>
                    THEN [traceSink EXCEPT ![processor_] = Append(@, exported[1])]
                    ELSE traceSink
    /\ finished_traces_' = cleanup_finished_traces(Append(finished_traces_, tr),
                                                   max_finished_traces_)
    /\ active_traces_' = WithoutTrace(active_traces_, tr.trace_id)
    /\ lastOp' = Op("finish_trace", t, tr.trace_id, 0, TRUE, exported,
                    IF processor_ # NoProcessor /\ exported # <<>> THEN 1 ELSE 0)

\* finish_trace(trace_id) up to the call of export_trace (or to its end, when
\* the trace is unknown or no processor is set).
finish_trace(t, trace_id) ==
    /\ Idle(t) /\ MutexFree("traces_mutex_")
    /\ IF trace_id \notin DOMAIN active_traces_
       THEN /\ lastOp' = Op("finish_trace", t, trace_id, 0, FALSE, <<>>, 0)
            /\ UNCHANGED <<flowVars, active_traces_, finished_traces_, traceSink, finishHist>>
       ELSE /\ Len(finishHist) < MaxFinishes
            /\ finishHist' = Append(finishHist, trace_id)
            /\ LET tr == Trace_finish(active_traces_[trace_id])
               IN IF processor_ = NoProcessor
                  THEN /\ FinishMove(t, tr, <<>>)
                       /\ UNCHANGED flowVars
                  ELSE /\ active_traces_' = [active_traces_ EXCEPT ![trace_id] = tr]
                       /\ pc' = [pc EXCEPT ![t] = "finish_trace:export_trace"]
                       /\ callTrace' = [callTrace EXCEPT ![t] = <<tr>>]
                       /\ holds' = [holds EXCEPT ![t] = {"traces_mutex_", "spans_mutex_"}]
                       /\ lastOp' = Op("finish_trace:begin", t, trace_id, 0, TRUE, <<>>, 0)
                       /\ UNCHANGED <<finished_traces_, traceSink>>
    /\ UNCHANGED <<scopeVars, compVars, cacheVars, guardVars, sessionVars,
                   now, context_, instance_, processor_, max_finished_traces_, genCount,
                   spanVars, spanSink>>

\* finish_trace from get_stats' lock inside export_trace to the end.
finish_trace_export(t) ==
    /\ pc[t] = "finish_trace:export_trace"
    /\ \E outcome \in RelockOutcomes :
         IF outcome = "deadlock"
         THEN /\ pc' = [pc EXCEPT ![t] = "finish_trace:blocked"]
              /\ lastOp' = Op("finish_trace:blocked", t, callTrace[t][1].trace_id, 0, TRUE, <<>>, 0)
              /\ UNCHANGED <<callTrace, holds, active_traces_, finished_traces_, traceSink>>
         ELSE /\ FinishMove(t, callTrace[t][1], export_trace_result(callTrace[t][1], outcome))
              /\ pc' = [pc EXCEPT ![t] = "idle"]
              /\ callTrace' = [callTrace EXCEPT ![t] = <<>>]
              /\ holds' = [holds EXCEPT ![t] = {}]
    /\ UNCHANGED <<scopeVars, compVars, cacheVars, guardVars, sessionVars,
                   now, context_, instance_, processor_, max_finished_traces_, genCount,
                   spanVars, spanSink, finishHist>>

\* get_active_trace(trace_id)->export_trace(), up to the call of get_stats.
export_trace(t, trace_id) ==
    /\ Idle(t) /\ MutexFree("traces_mutex_") /\ MutexFree("spans_mutex_")
    /\ trace_id \in DOMAIN active_traces_
    /\ pc' = [pc EXCEPT ![t] = "export_trace:get_stats"]
    /\ callTrace' = [callTrace EXCEPT ![t] = <<active_traces_[trace_id]>>]
    /\ holds' = [holds EXCEPT ![t] = {"spans_mutex_"}]
    /\ lastOp' = Op("export_trace:begin", t, trace_id, 0, TRUE, <<>>, 0)
    /\ UNCHANGED <<scopeVars, compVars, cacheVars, guardVars, sessionVars,
                   now, context_, regVars, genCount, spanVars, sinkVars, finishHist>>

\* export_trace from get_stats' lock to its return.
export_trace_get_stats(t) ==
    /\ pc[t] = "export_trace:get_stats"
    /\ \E outcome \in RelockOutcomes :
         IF outcome = "deadlock"
         THEN /\ pc' = [pc EXCEPT ![t] = "export_trace:blocked"]
              /\ lastOp' = Op("export_trace:blocked", t, callTrace[t][1].trace_id, 0, TRUE, <<>>, 0)
              /\ UNCHANGED <<callTrace, holds>>
         ELSE /\ pc' = [pc EXCEPT ![t] = "idle"]
              /\ callTrace' = [callTrace EXCEPT ![t] = <<>>]
              /\ holds' = [holds EXCEPT ![t] = {}]
              /\ lastOp' = Op("export_trace", t, callTrace[t][1].trace_id, 0, TRUE,
                              export_trace_result(callTrace[t][1], outcome), 0)
    /\ UNCHANGED <<scopeVars, compVars, cacheVars, guardVars, sessionVars,
                   now, context_, regVars, genCount, spanVars, sinkVars, finishHist>>

\* A TraceManager built with TraceManager(processor, max_finished_traces).
Init ==
    /\ now = 1
    /\ pc = [t \in Flows |-> "idle"]
    /\ callTrace = [t \in Flows |-> <<>>]
    /\ holds = [t \in Flows |-> {}]
    /\ context_ = [t \in Flows |-> EmptyContext]
    /\ instance_ = FALSE
    /\ active_traces_ = <<>>
    /\ finished_traces_ = <<>>
    /\ processor_ \in {NoProcessor, "P1"}
    /\ max_finished_traces_ \in 0..MaxCap
    /\ genCount = 0
    /\ spanCount = 0
    /\ spans = <<>>
    /\ default_processor_ = NoProcessor
    /\ traceSink = [p \in Processors |-> <<>>]
    /\ spanSink = [p \in Processors |-> <<>>]
    /\ finishHist = <<>>
    /\ scopes = [t \in Flows |-> <<>>]
    /\ snapshots = [t \in Flows |-> <<>>]
    /\ traceGuards = [t \in Flows |-> <<>>]
    /\ sessions_ = <<>>
    /\ sessionsMade = 0
    /\ received = [t \in Flows |-> <<>>]
    /\ cache_ = <<>>
    /\ access_times_ = <<>>
    /\ max_size_ = DefaultCacheSize
    /\ ttl_ = DefaultTtl
    /\ hits_ = 0
    /\ misses_ = 0
    /\ processors_ = <<>>
    /\ subReceived = <<>>
    /\ callCount = 0
    /\ subShutdowns = [p \in DOMAIN subReceived |-> 0]
    /\ wrapped = [w \in Wrappers |-> Untouched]
    /\ filters_ = <<>>
    /\ shutdown_handler_ = FALSE
    /\ lastOp = Op("init", 0, None, 0, FALSE, <<>>, 0)

TraceIdInputs == (1..NumTraceIds) \cup {GenBase + 1}

Next ==
    \/ \E t \in Flows : \E id \in 0..NumTraceIds : create_trace(t, id)
    \/ \E t \in Flows : \E id \in TraceIdInputs : finish_trace(t, id)
    \/ \E t \in Flows : finish_trace_export(t)
    \/ \E t \in Flows : \E id \in {1, GenBase + 1} : export_trace(t, id)
    \/ \E t \in Flows : export_trace_get_stats(t)

Spec == Init /\ [][Next]_vars

\* ---- SpanFactory (create.h, create.cpp) and the global registry ----

\* GlobalTraceManager::initialize() with its default arguments.
GlobalTraceManager_initialize(t) ==
    /\ Idle(t)
    /\ instance_' = TRUE
    /\ active_traces_' = <<>>
    /\ finished_traces_' = <<>>
    /\ processor_' = NoProcessor
    /\ max_finished_traces_' = DefaultMaxFinishedTraces
    /\ lastOp' = Op("initialize", t, None, 0, FALSE, <<>>, 0)
    /\ UNCHANGED <<scopeVars, compVars, cacheVars, guardVars, sessionVars,
                   now, flowVars, context_, genCount, spanVars, sinkVars, finishHist>>

\* GlobalTraceManager::instance().create_trace(trace_id): instance() makes the
\* manager when there is none.
GlobalTraceManager_create_trace(t, trace_id) ==
    /\ Idle(t) /\ MutexFree("traces_mutex_")
    /\ trace_id = None => genCount < MaxGen
    /\ LET id == IF trace_id # None THEN trace_id ELSE generate_trace_id
       IN /\ active_traces_' = WithTrace(active_traces_, id, Trace(id))
          /\ genCount' = IF trace_id = None THEN genCount + 1 ELSE genCount
          /\ lastOp' = Op("create_trace", t, id, 0, FALSE, <<>>, 0)
    /\ instance_' = TRUE
    /\ UNCHANGED <<scopeVars, compVars, cacheVars, guardVars, sessionVars, now, flowVars, context_, finished_traces_, processor_,
                   max_finished_traces_, spanVars, sinkVars, finishHist>>

disable_tracing(t) ==
    /\ Idle(t)
    /\ context_' = [context_ EXCEPT ![t].trace_disabled = TRUE]
    /\ lastOp' = Op("disable_tracing", t, None, 0, FALSE, <<>>, 0)
    /\ UNCHANGED <<scopeVars, compVars, cacheVars, guardVars, sessionVars,
                   now, flowVars, regVars, genCount, spanVars, sinkVars, finishHist>>

enable_tracing(t) ==
    /\ Idle(t)
    /\ context_' = [context_ EXCEPT ![t].trace_disabled = FALSE]
    /\ lastOp' = Op("enable_tracing", t, None, 0, FALSE, <<>>, 0)
    /\ UNCHANGED <<scopeVars, compVars, cacheVars, guardVars, sessionVars,
                   now, flowVars, regVars, genCount, spanVars, sinkVars, finishHist>>

\* resolve_trace_id: "option", "current", "started" (start_current_trace on the
\* global manager) or "generated" (a fresh id nobody registered).
ResolveTraceHow(c, opt_trace_id) ==
    IF opt_trace_id # None THEN "option"
    ELSE IF get_current_trace_id(c) # None THEN "current"
    ELSE IF instance_ THEN "started"
    ELSE "generated"

\* A resolution that looks at the context before the option.
resolve_trace_id_context_first(c, opt_trace_id) ==
    IF get_current_trace_id(c) # None THEN get_current_trace_id(c)
    ELSE IF opt_trace_id # None THEN opt_trace_id
    ELSE generate_trace_id

resolve_trace_id(c, opt_trace_id) ==
    CASE ResolveTraceHow(c, opt_trace_id) = "option"  -> opt_trace_id
      [] ResolveTraceHow(c, opt_trace_id) = "current" -> get_current_trace_id(c)
      [] OTHER -> generate_trace_id

resolve_parent_span_id(c, opt_parent_span_id) ==
    IF opt_parent_span_id # None THEN opt_parent_span_id ELSE get_current_span_id(c)

resolve_processor(opt_processor) ==
    IF opt_processor # NoProcessor THEN opt_processor ELSE default_processor_

\* A factory that skips the disabled check and always builds the real span.
NewSpan_ignores_disabled(disabled, trace_id, span_id, parent_span_id, type, processor) ==
    SpanImpl(trace_id, span_id, parent_span_id, type, processor)

\* The span create_span_impl builds, before auto_start.
NewSpan(disabled, trace_id, span_id, parent_span_id, type, processor) ==
    IF disabled
    THEN NoOpSpan(type)
    ELSE SpanImpl(trace_id, span_id, parent_span_id, type, processor)

\* SpanFactory::create_<type>_span(span_data, options).
create_span(t, type, opt_trace_id, opt_parent_span_id, auto_start, mark_as_current, opt_processor, replace) ==
    /\ Idle(t) /\ MutexFree("traces_mutex_")
    /\ LET c0 == context_[t]
           how == ResolveTraceHow(c0, opt_trace_id)
           trace_id == resolve_trace_id(c0, opt_trace_id)
           \* start_current_trace: create_trace, then set_current_trace_id
           act1 == IF how = "started"
                   THEN WithTrace(active_traces_, trace_id, Trace(trace_id))
                   ELSE active_traces_
           c1 == IF how = "started" THEN set_current_trace_id(c0, trace_id) ELSE c0
           parent_span_id == resolve_parent_span_id(c1, opt_parent_span_id)
           processor == resolve_processor(opt_processor)
           span_id == generate_span_id
           made == NewSpan(is_trace_disabled(c1), trace_id, span_id, parent_span_id,
                           type, processor)
           span == IF auto_start THEN Span_start(made, mark_as_current) ELSE made
           c2 == IF auto_start THEN ContextAfterStart(c1, made, mark_as_current) ELSE c1
           registers == span.kind = "real" /\ instance_ /\ trace_id \in DOMAIN act1
       IN /\ how \in {"started", "generated"} => genCount < MaxGen
          /\ genCount' = IF how \in {"started", "generated"} THEN genCount + 1 ELSE genCount
          /\ active_traces_' = IF registers
                               THEN [act1 EXCEPT ![trace_id] = add_span(@, span)]
                               ELSE act1
          /\ context_' = [context_ EXCEPT ![t] = c2]
          /\ spanCount' = spanCount + 1
          /\ spans' = HeldSpans(spans, span_id,
                                [span EXCEPT !.madeDisabled = is_trace_disabled(c0)], replace)
          /\ spanSink' = [p \in Processors |-> HeldSpans(spanSink[p], span_id, 0, replace)]
          /\ lastOp' = Op("create_span", t, trace_id, span_id, registers,
                          <<[trace_id |-> opt_trace_id, parent_span_id |-> opt_parent_span_id,
                             processor |-> opt_processor]>>, 0)
    /\ UNCHANGED <<scopeVars, compVars, cacheVars, guardVars, sessionVars, now, flowVars, instance_, finished_traces_, processor_,
                   max_finished_traces_, default_processor_, traceSink, finishHist>>

\* span.start(mark_as_current)
span_start(t, i, mark_as_current) ==
    /\ Idle(t)
    /\ i \in DOMAIN spans
    /\ spans' = [spans EXCEPT ![i] = Span_start(@, mark_as_current)]
    /\ context_' = [context_ EXCEPT ![t] = ContextAfterStart(@, spans[i], mark_as_current)]
    /\ lastOp' = Op("start", t, None, i, FALSE, <<>>, 0)
    /\ UNCHANGED <<scopeVars, compVars, cacheVars, guardVars, sessionVars,
                   now, flowVars, regVars, genCount, spanCount, default_processor_, sinkVars,
                   finishHist>>

\* span.set_error(error)
span_set_error(t, i, error) ==
    /\ Idle(t)
    /\ i \in DOMAIN spans
    /\ spans' = [spans EXCEPT ![i].error_ = IF spans[i].kind = "real" THEN <<error>> ELSE @]
    /\ lastOp' = Op("set_error", t, None, i, FALSE, <<error>>, 0)
    /\ UNCHANGED <<scopeVars, compVars, cacheVars, guardVars, sessionVars, now, flowVars, context_, regVars, genCount, spanCount,
                   default_processor_, sinkVars, finishHist>>

\* span.finish(reset_current)
span_finish(t, i, reset_current) ==
    /\ Idle(t)
    /\ i \in DOMAIN spans
    /\ spans[i].finishes < MaxSpanFinishes
    /\ spans' = [spans EXCEPT ![i] = Span_finish(@, reset_current)]
    /\ context_' = [context_ EXCEPT ![t] = ContextAfterFinish(@, spans[i], reset_current)]
    /\ LET exported == Submitted(spans[i], reset_current)
       IN /\ spanSink' = IF exported # <<>>
                         THEN [spanSink EXCEPT ![spans[i].processor_][i] = @ + 1]
                         ELSE spanSink
          /\ lastOp' = Op("finish", t, None, i, FALSE, exported,
                          IF exported # <<>> THEN 1 ELSE 0)
    /\ UNCHANGED <<scopeVars, compVars, cacheVars, guardVars, sessionVars,
                   now, flowVars, regVars, genCount, spanCount, default_processor_,
                   traceSink, finishHist>>

\* A process with a SpanFactory(default processor) and no global trace manager yet.
InitSpan ==
    /\ now = 1
    /\ pc = [t \in Flows |-> "idle"]
    /\ callTrace = [t \in Flows |-> <<>>]
    /\ holds = [t \in Flows |-> {}]
    /\ context_ = [t \in Flows |-> EmptyContext]
    /\ instance_ = FALSE
    /\ active_traces_ = <<>>
    /\ finished_traces_ = <<>>
    /\ processor_ = NoProcessor
    /\ max_finished_traces_ = DefaultMaxFinishedTraces
    /\ genCount = 0
    /\ spanCount = 0
    /\ spans = <<>>
    /\ default_processor_ \in {NoProcessor, "P1"}
    /\ traceSink = [p \in Processors |-> <<>>]
    /\ spanSink = [p \in Processors |-> <<>>]
    /\ finishHist = <<>>
    /\ scopes = [t \in Flows |-> <<>>]
    /\ snapshots = [t \in Flows |-> <<>>]
    /\ traceGuards = [t \in Flows |-> <<>>]
    /\ sessions_ = <<>>
    /\ sessionsMade = 0
    /\ received = [t \in Flows |-> <<>>]
    /\ cache_ = <<>>
    /\ access_times_ = <<>>
    /\ max_size_ = DefaultCacheSize
    /\ ttl_ = DefaultTtl
    /\ hits_ = 0
    /\ misses_ = 0
    /\ processors_ = <<>>
    /\ subReceived = <<>>
    /\ callCount = 0
    /\ subShutdowns = [p \in DOMAIN subReceived |-> 0]
    /\ wrapped = [w \in Wrappers |-> Untouched]
    /\ filters_ = <<>>
    /\ shutdown_handler_ = FALSE
    /\ lastOp = Op("init", 0, None, 0, FALSE, <<>>, 0)

NextSpan ==
    \/ \E t \in Flows : GlobalTraceManager_initialize(t)
    \/ \E t \in Flows : GlobalTraceManager_create_trace(t, 1)
    \/ \E t \in Flows : disable_tracing(t)
    \/ \E t \in Flows : enable_tracing(t)
    \/ \E t \in Flows : \E type \in {"agent"} : \E opt_trace_id \in {None, 1} :
       \E opt_parent_span_id \in {None, 1} : \E auto_start, mark_as_current \in BOOLEAN :
       \E opt_processor \in {NoProcessor, "P2"} :
          /\ spanCount < MaxSpans
          /\ create_span(t, type, opt_trace_id, opt_parent_span_id, auto_start,
                         mark_as_current, opt_processor, TRUE)
    \/ \E t \in Flows : \E i \in DOMAIN spans : \E mark_as_current \in BOOLEAN :
          span_start(t, i, mark_as_current)
    \/ \E t \in Flows : \E i \in DOMAIN spans : \E error \in Errors :
          span_set_error(t, i, error)
    \/ \E t \in Flows : \E i \in DOMAIN spans : \E reset_current \in BOOLEAN :
          span_finish(t, i, reset_current)

SpecSpan == InitSpan /\ [][NextSpan]_vars

\* ---- The end-to-end run: trace 1, Agent span A, Function span F under A ----

BothFinished == spanCount = 2 /\ \A i \in DOMAIN spans : spans[i].finishes >= 1

NextE2E ==
    \/ Tick
    \/ \E t \in Flows : ~instance_ /\ GlobalTraceManager_create_trace(t, 1)
    \/ \E t \in Flows : \E auto_start, mark_as_current \in BOOLEAN :
          /\ instance_ /\ spanCount = 0
          /\ create_span(t, "agent", 1, None, auto_start, mark_as_current, NoProcessor, FALSE)
    \/ \E t \in Flows : \E auto_start, mark_as_current \in BOOLEAN :
          /\ spanCount = 1
          /\ create_span(t, "function", 1, get_span_id(spans[1]), auto_start,
                         mark_as_current, NoProcessor, FALSE)
    \/ \E t \in Flows : \E i \in DOMAIN spans : \E reset_current \in BOOLEAN :
          /\ spanCount = 2 /\ spans[i].finishes = 0
          /\ span_finish(t, i, reset_current)
    \/ \E t \in Flows : BothFinished /\ export_trace(t, 1)
    \/ \E t \in Flows : export_trace_get_stats(t)

SpecE2E == InitSpan /\ [][NextE2E]_vars

\* ---- Scoped context guards (scope.h) ----

\* The (current_trace_id, current_span_id, disabled) triple of a context.
Triple(c) == <<get_current_trace_id(c), get_current_span_id(c), is_trace_disabled(c)>>

\* TracingContext::set(key, value)
TracingContext_set(c, key, value) == [c EXCEPT ![key] = value]

\* ThreadLocalContext::clear()
clear_all(c) == EmptyContext

\* A guard constructor that takes its copy after the key is set.
ScopedContext_key_copies_late(c, key, value) ==
    [guard   |-> [previous_context_ |-> TracingContext_set(c, key, value),
                  should_restore_ |-> TRUE],
     context |-> TracingContext_set(c, key, value)]

\* ScopedContext(key, value): the guard built in context c, and the context
\* the constructor leaves.
ScopedContext_key(c, key, value) ==
    [guard   |-> [previous_context_ |-> c, should_restore_ |-> TRUE],
     context |-> TracingContext_set(c, key, value)]

\* ScopedContext(new_context)
ScopedContext_ctx(c, new_context) ==
    [guard   |-> [previous_context_ |-> c, should_restore_ |-> TRUE],
     context |-> new_context]

\* ~ScopedContext(): the context the destructor leaves.
ScopedContext_dtor(g, c) == IF g.should_restore_ THEN g.previous_context_ ELSE c

\* The factories of ScopedTracingContext.
create_trace_scope_impl(c, trace_id) == ScopedContext_key(c, "current_trace_id", trace_id)
create_span_scope_impl(c, span_id) == ScopedContext_key(c, "current_span_id", span_id)
create_disabled_scope_impl(c) == ScopedContext_key(c, "trace_disabled", TRUE)
create_trace_span_scope_impl(c, trace_id, span_id) ==
    ScopedContext_ctx(c, TracingContext_set(TracingContext_set(c, "current_trace_id", trace_id),
                                            "current_span_id", span_id))

\* Entering a scope: the guard is pushed with the triple that held at its
\* construction (entered, a ghost field) and the context becomes the constructor's.
EnterScope(name, t, made) ==
    /\ Idle(t)
    /\ Len(scopes[t]) < MaxDepth
    /\ scopes' = [scopes EXCEPT ![t] = Append(@, [guard |-> made.guard,
                                                  entered |-> Triple(context_[t])])]
    /\ context_' = [context_ EXCEPT ![t] = made.context]
    /\ lastOp' = Op(name, t, None, 0, FALSE, <<>>, 0)
    /\ UNCHANGED <<tracingVars, compVars, cacheVars, guardVars, sessionVars, snapshots>>

create_trace_scope(t, trace_id) ==
    EnterScope("create_trace_scope", t, create_trace_scope_impl(context_[t], trace_id))

create_span_scope(t, span_id) ==
    EnterScope("create_span_scope", t, create_span_scope_impl(context_[t], span_id))

create_disabled_scope(t) ==
    EnterScope("create_disabled_scope", t, create_disabled_scope_impl(context_[t]))

create_trace_span_scope(t, trace_id, span_id) ==
    EnterScope("create_trace_span_scope", t,
               create_trace_span_scope_impl(context_[t], trace_id, span_id))

\* Destroying the n innermost guards of a stack, innermost first, from context
\* c: for each destructor, the context before it, the triple it leaves and the
\* triple that held when its guard was constructed; and the final context.
RECURSIVE Unwind(_, _, _)
Unwind(stack, c, n) ==
    IF n = 0 THEN [log |-> <<>>, context |-> c]
    ELSE LET g == stack[Len(stack)]
             after == ScopedContext_dtor(g.guard, c)
             rest == Unwind(SubSeq(stack, 1, Len(stack) - 1), after, n - 1)
         IN [log |-> <<[before |-> Triple(c), restored |-> Triple(after),
                        entered |-> g.entered]>> \o rest.log,
             context |-> rest.context]

LeaveScopes(name, t, n) ==
    /\ Idle(t)
    /\ n \in 1..Len(scopes[t])
    /\ LET u == Unwind(scopes[t], context_[t], n)
       IN /\ context_' = [context_ EXCEPT ![t] = u.context]
          /\ lastOp' = Op(name, t, None, 0, FALSE, u.log, n)
    /\ scopes' = [scopes EXCEPT ![t] = SubSeq(@, 1, Len(@) - n)]
    /\ UNCHANGED <<tracingVars, compVars, cacheVars, guardVars, sessionVars, snapshots>>

\* The innermost scope ends normally.
scope_end(t) == LeaveScopes("scope_end", t, 1)

\* An exception propagates out of the n innermost scopes.
scope_unwind(t, n) == LeaveScopes("scope_unwind", t, n)

\* A context call on one context shared by all threads (a plain static).
MutateContext_shared(name, t, c) ==
    /\ Idle(t)
    /\ context_' = [u \in DOMAIN context_ |-> c]
    /\ lastOp' = Op(name, t, None, 0, FALSE, <<>>, 0)
    /\ UNCHANGED <<tracingVars, scopeVars, compVars, cacheVars, guardVars, sessionVars>>

\* Context calls made inside (or outside) scopes.
MutateContext(name, t, c) ==
    /\ Idle(t)
    /\ context_' = [context_ EXCEPT ![t] = c]
    /\ lastOp' = Op(name, t, None, 0, FALSE, <<>>, 0)
    /\ UNCHANGED <<tracingVars, scopeVars, compVars, cacheVars, guardVars, sessionVars>>

call_set_current_trace_id(t, id) ==
    MutateContext("set_current_trace_id", t, set_current_trace_id(context_[t], id))
call_reset_current_trace(t) ==
    MutateContext("reset_current_trace", t, reset_current_trace(context_[t]))
call_set_current_span_id(t, id) ==
    MutateContext("set_current_span_id", t, set_current_span_id(context_[t], id))
call_reset_current_span(t) ==
    MutateContext("reset_current_span", t, reset_current_span(context_[t]))
call_clear_all(t) ==
    MutateContext("clear_all", t, clear_all(context_[t]))

NextScope ==
    \/ \E t \in Flows : create_trace_scope(t, 1)
    \/ \E t \in Flows : create_span_scope(t, 1)
    \/ \E t \in Flows : create_disabled_scope(t)
    \/ \E t \in Flows : create_trace_span_scope(t, 1, 1)
    \/ \E t \in Flows : scope_end(t)
    \/ \E t \in Flows : \E n \in 1..MaxDepth : scope_unwind(t, n)
    \/ \E t \in Flows : call_set_current_trace_id(t, 2)
    \/ \E t \in Flows : call_reset_current_trace(t)
    \/ \E t \in Flows : call_set_current_span_id(t, 2)
    \/ \E t \in Flows : call_reset_current_span(t)
    \/ \E t \in Flows : call_clear_all(t)
    \/ \E t \in Flows : disable_tracing(t)
    \/ \E t \in Flows : enable_tracing(t)

SpecScope == InitSpan /\ [][NextScope]_vars

\* ---- CompositeProcessor (processor_interface.h) ----

CallKinds == {"process_span", "process_trace"}

\* What a sub-processor may throw from a call: a type derived from
\* std::exception, or any other type (C++ lets any object be thrown).
ExceptionTypes == {"std::runtime_error", "int"}
StdExceptions == {"std::runtime_error"}
NoThrow == "returns"

\* catch (const std::exception& e)
Caught(e) == e \in StdExceptions

\* for (auto& processor : processors_) { try { processor->call(data); }
\* catch (const std::exception& e) {} } from index k on: the sub-processors the
\* call was made on, in order, and whether an exception left the loop.
\* behaviour[p] is what sub-processor p does with the call.
RECURSIVE ForEach(_, _, _, _)
ForEach(procs, k, behaviour, delivered) ==
    IF k > Len(procs)
    THEN [delivered |-> delivered, propagated |-> FALSE]
    ELSE LET p == procs[k]
             thrown == behaviour[p]
         IN IF thrown # NoThrow /\ ~Caught(thrown)
            THEN [delivered |-> Append(delivered, p), propagated |-> TRUE]
            ELSE ForEach(procs, k + 1, behaviour, Append(delivered, p))

\* CompositeProcessor::process_span / process_trace
composite_process(kind, behaviour) ==
    /\ callCount < MaxCalls
    /\ DOMAIN behaviour = DOMAIN subReceived
    /\ LET call == [kind |-> kind, no |-> callCount + 1]
           done == ForEach(processors_, 1, behaviour, <<>>)
       IN /\ subReceived' = [p \in DOMAIN subReceived |->
                               IF \E k \in 1..Len(done.delivered) : done.delivered[k] = p
                               THEN Append(subReceived[p], call)
                               ELSE subReceived[p]]
          /\ lastOp' = Op(kind, 0, callCount + 1, 0,
                          \E p \in DOMAIN behaviour : behaviour[p] # NoThrow, <<done>>, 0)
    /\ callCount' = callCount + 1
    /\ UNCHANGED <<tracingVars, context_, scopeVars, cacheVars, guardVars, sessionVars, processors_, subShutdowns, wrapped,
                   shutdown_handler_, filters_>>

process_span(behaviour) == composite_process("process_span", behaviour)
process_trace(behaviour) == composite_process("process_trace", behaviour)

\* A CompositeProcessor over 1..MaxSubs sub-processors, registered in the order 1, 2, ...;
\* a FilteredProcessor and an AsyncProcessor over one processor each, and a
\* FunctionProcessor constructed with or without a shutdown handler.
InitComposite ==
    /\ now = 1
    /\ pc = [t \in Flows |-> "idle"]
    /\ callTrace = [t \in Flows |-> <<>>]
    /\ holds = [t \in Flows |-> {}]
    /\ context_ = [t \in Flows |-> EmptyContext]
    /\ instance_ = FALSE
    /\ active_traces_ = <<>>
    /\ finished_traces_ = <<>>
    /\ processor_ = NoProcessor
    /\ max_finished_traces_ = DefaultMaxFinishedTraces
    /\ genCount = 0
    /\ spanCount = 0
    /\ spans = <<>>
    /\ default_processor_ = NoProcessor
    /\ traceSink = [p \in Processors |-> <<>>]
    /\ spanSink = [p \in Processors |-> <<>>]
    /\ finishHist = <<>>
    /\ scopes = [t \in Flows |-> <<>>]
    /\ snapshots = [t \in Flows |-> <<>>]
    /\ traceGuards = [t \in Flows |-> <<>>]
    /\ sessions_ = <<>>
    /\ sessionsMade = 0
    /\ received = [t \in Flows |-> <<>>]
    /\ cache_ = <<>>
    /\ access_times_ = <<>>
    /\ max_size_ = DefaultCacheSize
    /\ ttl_ = DefaultTtl
    /\ hits_ = 0
    /\ misses_ = 0
    /\ \E n \in 1..MaxSubs : /\ processors_ = [k \in 1..n |-> k]
                            /\ subReceived = [p \in 1..n |-> <<>>]
    /\ callCount = 0
    /\ subShutdowns = [p \in DOMAIN subReceived |-> 0]
    /\ wrapped = [w \in Wrappers |-> Untouched]
    /\ filters_ = <<>>
    /\ shutdown_handler_ \in BOOLEAN
    /\ lastOp = Op("init", 0, None, 0, FALSE, <<>>, 0)

Behaviours == [DOMAIN subReceived -> {NoThrow} \cup ExceptionTypes]

NextComposite ==
    \/ \E behaviour \in Behaviours : process_span(behaviour)
    \/ \E behaviour \in Behaviours : process_trace(behaviour)

SpecComposite == InitComposite /\ [][NextComposite]_vars

\* ---- Two threads, each with its own ThreadLocalContext::context_ ----

Threads == {1, 2}

\* Two threads of one process and one span of trace 1, made by the factory
\* (no processor, no global trace manager) and not started yet.
InitThreads ==
    /\ now = 1
    /\ pc = [t \in Threads |-> "idle"]
    /\ callTrace = [t \in Threads |-> <<>>]
    /\ holds = [t \in Threads |-> {}]
    /\ context_ = [t \in Threads |-> EmptyContext]
    /\ instance_ = FALSE
    /\ active_traces_ = <<>>
    /\ finished_traces_ = <<>>
    /\ processor_ = NoProcessor
    /\ max_finished_traces_ = DefaultMaxFinishedTraces
    /\ genCount = 0
    /\ spanCount = 1
    /\ spans = [i \in {1} |-> SpanImpl(1, 1, None, "agent", NoProcessor)]
    /\ default_processor_ = NoProcessor
    /\ traceSink = [p \in Processors |-> <<>>]
    /\ spanSink = [p \in Processors |-> [i \in {1} |-> 0]]
    /\ finishHist = <<>>
    /\ scopes = [t \in Threads |-> <<>>]
    /\ snapshots = [t \in Threads |-> <<>>]
    /\ traceGuards = [t \in Threads |-> <<>>]
    /\ sessions_ = <<>>
    /\ sessionsMade = 0
    /\ received = [t \in Threads |-> <<>>]
    /\ cache_ = <<>>
    /\ access_times_ = <<>>
    /\ max_size_ = DefaultCacheSize
    /\ ttl_ = DefaultTtl
    /\ hits_ = 0
    /\ misses_ = 0
    /\ processors_ = <<>>
    /\ subReceived = <<>>
    /\ callCount = 0
    /\ subShutdowns = [p \in DOMAIN subReceived |-> 0]
    /\ wrapped = [w \in Wrappers |-> Untouched]
    /\ filters_ = <<>>
    /\ shutdown_handler_ = FALSE
    /\ lastOp = Op("init", 0, None, 0, FALSE, <<>>, 0)

\* Each thread holds at most one guard at a time here, and the span is
\* finished once.
NextThreads ==
    \/ \E t \in Threads : call_set_current_trace_id(t, 1)
    \/ \E t \in Threads : call_set_current_span_id(t, 1)
    \/ \E t \in Threads : disable_tracing(t)
    \/ \E t \in Threads : enable_tracing(t)
    \/ \E t \in Threads : scopes[t] = <<>> /\ create_trace_scope(t, 1)
    \/ \E t \in Threads : scopes[t] = <<>> /\ create_span_scope(t, 1)
    \/ \E t \in Threads : scopes[t] = <<>> /\ create_disabled_scope(t)
    \/ \E t \in Threads : scopes[t] = <<>> /\ create_trace_span_scope(t, 1, 1)
    \/ \E t \in Threads : scope_end(t)
    \/ \E t \in Threads : \E i \in DOMAIN spans :
          spans[i].finishes = 0 /\ span_start(t, i, TRUE)
    \/ \E t \in Threads : \E i \in DOMAIN spans : \E reset_current \in BOOLEAN :
          spans[i].finishes = 0 /\ span_finish(t, i, reset_current)

SpecThreads == InitThreads /\ [][NextThreads]_vars

\* ---- The registry shared by two threads ----

\* set_processor writes processor_ without locking traces_mutex_.  A write
\* while another thread is inside finish_trace, between its test of processor_
\* and its call through it, is a data race on the shared_ptr: the build either
\* completes the write (the other thread calls through the old or the new
\* pointer, depending on the order) or the process dies on a torn or null pointer.
DataRaceOutcomes == {"written", "crash"}

InFinishTraceUse(u) == pc[u] = "finish_trace:export_trace"

\* TraceManager::set_processor(processor)
set_processor(t, processor) ==
    /\ Idle(t)
    /\ IF \E u \in DOMAIN pc : u # t /\ InFinishTraceUse(u)
       THEN \E outcome \in DataRaceOutcomes :
              IF outcome = "written" /\ processor # NoProcessor
              THEN /\ processor_' = processor
                   /\ lastOp' = Op("set_processor", t, None, 0, TRUE, <<>>, 0)
                   /\ UNCHANGED pc
              ELSE /\ pc' = [u \in DOMAIN pc |-> "crashed"]
                   /\ lastOp' = Op("set_processor:crashed", t, None, 0, TRUE, <<>>, 0)
                   /\ UNCHANGED processor_
       ELSE /\ processor_' = processor
            /\ lastOp' = Op("set_processor", t, None, 0, FALSE, <<>>, 0)
            /\ UNCHANGED pc
    /\ UNCHANGED <<scopeVars, compVars, cacheVars, guardVars, sessionVars, now, callTrace, holds, context_, instance_,
                   active_traces_, finished_traces_, max_finished_traces_, genCount,
                   spanVars, sinkVars, finishHist>>

\* TraceManager::clear_all_traces()
clear_all_traces(t) ==
    /\ Idle(t) /\ MutexFree("traces_mutex_")
    /\ active_traces_' = <<>>
    /\ finished_traces_' = <<>>
    /\ lastOp' = Op("clear_all_traces", t, None, 0, FALSE, <<>>, 0)
    /\ UNCHANGED <<scopeVars, compVars, cacheVars, guardVars, sessionVars, now, flowVars, context_, instance_, processor_,
                   max_finished_traces_, genCount, spanVars, sinkVars, finishHist>>

\* TraceManager::get_active_trace_ids() / get_finished_trace_ids()
call_get_trace_ids(t) ==
    /\ Idle(t) /\ MutexFree("traces_mutex_")
    /\ lastOp' = Op("get_trace_ids", t, None, 0, FALSE,
                    <<[active |-> get_active_trace_ids, finished |-> get_finished_trace_ids]>>, 0)
    /\ UNCHANGED <<scopeVars, compVars, cacheVars, guardVars, sessionVars, now, flowVars, context_, regVars, genCount,
                   spanVars, sinkVars, finishHist>>

\* One TraceManager(processor) used by two threads.
InitShared ==
    /\ now = 1
    /\ pc = [t \in Threads |-> "idle"]
    /\ callTrace = [t \in Threads |-> <<>>]
    /\ holds = [t \in Threads |-> {}]
    /\ context_ = [t \in Threads |-> EmptyContext]
    /\ instance_ = FALSE
    /\ active_traces_ = <<>>
    /\ finished_traces_ = <<>>
    /\ processor_ \in {NoProcessor, "P1"}
    /\ max_finished_traces_ = DefaultMaxFinishedTraces
    /\ genCount = 0
    /\ spanCount = 0
    /\ spans = <<>>
    /\ default_processor_ = NoProcessor
    /\ traceSink = [p \in Processors |-> <<>>]
    /\ spanSink = [p \in Processors |-> <<>>]
    /\ finishHist = <<>>
    /\ scopes = [t \in Threads |-> <<>>]
    /\ snapshots = [t \in Threads |-> <<>>]
    /\ traceGuards = [t \in Threads |-> <<>>]
    /\ sessions_ = <<>>
    /\ sessionsMade = 0
    /\ received = [t \in Threads |-> <<>>]
    /\ cache_ = <<>>
    /\ access_times_ = <<>>
    /\ max_size_ = DefaultCacheSize
    /\ ttl_ = DefaultTtl
    /\ hits_ = 0
    /\ misses_ = 0
    /\ processors_ = <<>>
    /\ subReceived = <<>>
    /\ callCount = 0
    /\ subShutdowns = [p \in DOMAIN subReceived |-> 0]
    /\ wrapped = [w \in Wrappers |-> Untouched]
    /\ filters_ = <<>>
    /\ shutdown_handler_ = FALSE
    /\ lastOp = Op("init", 0, None, 0, FALSE, <<>>, 0)

NextShared ==
    \/ \E t \in Threads : \E id \in 1..NumTraceIds : create_trace(t, id)
    \/ \E t \in Threads : \E id \in 1..NumTraceIds : finish_trace(t, id)
    \/ \E t \in Threads : finish_trace_export(t)
    \/ \E t \in Threads : \E processor \in {NoProcessor, "P2"} : set_processor(t, processor)
    \/ \E t \in Threads : clear_all_traces(t)
    \/ \E t \in Threads : call_get_trace_ids(t)

SpecShared == InitShared /\ [][NextShared]_vars

\* ---- A registry whose traces receive spans through add_span_to_trace ----

\* An add_span_to_trace that makes the trace when it is not active (as
\* active_traces_[trace_id] would).
AddSpanToTrace_creates(act, trace_id, span) ==
    IF trace_id \in DOMAIN act
    THEN [act EXCEPT ![trace_id] = add_span(@, span)]
    ELSE WithTrace(act, trace_id, add_span(Trace(trace_id), span))

\* The active map after add_span_to_trace(trace_id, span).
AddSpanToTrace(act, trace_id, span) ==
    IF trace_id \in DOMAIN act
    THEN [act EXCEPT ![trace_id] = add_span(@, span)]
    ELSE act

\* The caller's span: a SpanImpl of that trace with an id no stored span has.
CallerSpan(trace_id, parent_span_id) ==
    SpanImpl(trace_id,
             IF trace_id \in DOMAIN active_traces_
             THEN Len(active_traces_[trace_id].spans_) + 1 ELSE 1,
             parent_span_id, "agent", NoProcessor)

\* TraceManager::add_span_to_trace(trace_id, span)
add_span_to_trace_of(t, trace_id, span) ==
    /\ Idle(t) /\ MutexFree("traces_mutex_")
    /\ trace_id \in DOMAIN active_traces_ =>
          /\ MutexFree("spans_mutex_")
          /\ Len(active_traces_[trace_id].spans_) < MaxTraceSpans
    /\ active_traces_' = AddSpanToTrace(active_traces_, trace_id, span)
    /\ lastOp' = Op("add_span_to_trace", t, trace_id, get_span_id(span),
                    trace_id \in DOMAIN active_traces_, <<>>, 0)
    /\ UNCHANGED <<scopeVars, compVars, cacheVars, guardVars, sessionVars, now, flowVars, context_, instance_,
                   finished_traces_, processor_, max_finished_traces_, genCount,
                   spanVars, sinkVars, finishHist>>

\* add_span_to_trace with an agent span that carries no error.
add_span_to_trace(t, trace_id, parent_span_id) ==
    add_span_to_trace_of(t, trace_id, CallerSpan(trace_id, parent_span_id))

\* get_active_trace(trace_id)->get_root_spans()
call_get_root_spans(t, trace_id) ==
    /\ Idle(t) /\ MutexFree("traces_mutex_")
    /\ trace_id \in DOMAIN active_traces_
    /\ lastOp' = Op("get_root_spans", t, trace_id, 0, TRUE,
                    get_root_spans(active_traces_[trace_id]), 0)
    /\ UNCHANGED <<scopeVars, compVars, cacheVars, guardVars, sessionVars, now, flowVars, context_, regVars, genCount,
                   spanVars, sinkVars, finishHist>>

\* get_active_trace(trace_id)->get_child_spans(parent_span_id)
call_get_child_spans(t, trace_id, parent_span_id) ==
    /\ Idle(t) /\ MutexFree("traces_mutex_")
    /\ trace_id \in DOMAIN active_traces_
    /\ lastOp' = Op("get_child_spans", t, trace_id, parent_span_id, TRUE,
                    get_child_spans(active_traces_[trace_id], parent_span_id), 0)
    /\ UNCHANGED <<scopeVars, compVars, cacheVars, guardVars, sessionVars, now, flowVars, context_, regVars, genCount,
                   spanVars, sinkVars, finishHist>>

\* A TraceManager(nullptr, 1).
InitTrace ==
    /\ now = 1
    /\ pc = [t \in Flows |-> "idle"]
    /\ callTrace = [t \in Flows |-> <<>>]
    /\ holds = [t \in Flows |-> {}]
    /\ context_ = [t \in Flows |-> EmptyContext]
    /\ instance_ = FALSE
    /\ active_traces_ = <<>>
    /\ finished_traces_ = <<>>
    /\ processor_ = NoProcessor
    /\ max_finished_traces_ = 1
    /\ genCount = 0
    /\ spanCount = 0
    /\ spans = <<>>
    /\ default_processor_ = NoProcessor
    /\ traceSink = [p \in Processors |-> <<>>]
    /\ spanSink = [p \in Processors |-> <<>>]
    /\ finishHist = <<>>
    /\ scopes = [t \in Flows |-> <<>>]
    /\ snapshots = [t \in Flows |-> <<>>]
    /\ traceGuards = [t \in Flows |-> <<>>]
    /\ sessions_ = <<>>
    /\ sessionsMade = 0
    /\ received = [t \in Flows |-> <<>>]
    /\ cache_ = <<>>
    /\ access_times_ = <<>>
    /\ max_size_ = DefaultCacheSize
    /\ ttl_ = DefaultTtl
    /\ hits_ = 0
    /\ misses_ = 0
    /\ processors_ = <<>>
    /\ subReceived = <<>>
    /\ callCount = 0
    /\ subShutdowns = [p \in DOMAIN subReceived |-> 0]
    /\ wrapped = [w \in Wrappers |-> Untouched]
    /\ filters_ = <<>>
    /\ shutdown_handler_ = FALSE
    /\ lastOp = Op("init", 0, None, 0, FALSE, <<>>, 0)

ParentInputs == {None, 1, 2}

NextTrace ==
    \/ \E t \in Flows : create_trace(t, 1)
    \/ \E t \in Flows : \E id \in {1, 2} : \E parent_span_id \in ParentInputs :
          add_span_to_trace(t, id, parent_span_id)
    \/ \E t \in Flows : call_get_root_spans(t, 1)
    \/ \E t \in Flows : \E parent_span_id \in ParentInputs \ {None} :
          call_get_child_spans(t, 1, parent_span_id)
    \/ \E t \in Flows : finish_trace(t, 1)

SpecTrace == InitTrace /\ [][NextTrace]_vars

\* ---- One span receiving errors ----

ErrorMessages == {"boom", "late"}

\* The data of an error: none, or one entry k holding a std::string, an int
\* or a string literal (a const char*).
ErrorData ==
    {<<>>} \cup {<<[k |-> value]>> : value \in {[type |-> "std::string", value |-> "v"],
                                                [type |-> "int", value |-> "7"],
                                                [type |-> "const char*", value |-> "v"]}}

ErrorInputs == [message : ErrorMessages, data : ErrorData]

\* A caller holding one span of trace 1 with processor P1, not started yet.
InitError ==
    /\ now = 1
    /\ pc = [t \in Flows |-> "idle"]
    /\ callTrace = [t \in Flows |-> <<>>]
    /\ holds = [t \in Flows |-> {}]
    /\ context_ = [t \in Flows |-> EmptyContext]
    /\ instance_ = FALSE
    /\ active_traces_ = <<>>
    /\ finished_traces_ = <<>>
    /\ processor_ = NoProcessor
    /\ max_finished_traces_ = DefaultMaxFinishedTraces
    /\ genCount = 0
    /\ spanCount = 1
    /\ spans = [i \in {1} |-> SpanImpl(1, 1, None, "agent", "P1")]
    /\ default_processor_ = "P1"
    /\ traceSink = [p \in Processors |-> <<>>]
    /\ spanSink = [p \in Processors |-> [i \in {1} |-> 0]]
    /\ finishHist = <<>>
    /\ scopes = [t \in Flows |-> <<>>]
    /\ snapshots = [t \in Flows |-> <<>>]
    /\ traceGuards = [t \in Flows |-> <<>>]
    /\ sessions_ = <<>>
    /\ sessionsMade = 0
    /\ received = [t \in Flows |-> <<>>]
    /\ cache_ = <<>>
    /\ access_times_ = <<>>
    /\ max_size_ = DefaultCacheSize
    /\ ttl_ = DefaultTtl
    /\ hits_ = 0
    /\ misses_ = 0
    /\ processors_ = <<>>
    /\ subReceived = <<>>
    /\ callCount = 0
    /\ subShutdowns = [p \in DOMAIN subReceived |-> 0]
    /\ wrapped = [w \in Wrappers |-> Untouched]
    /\ filters_ = <<>>
    /\ shutdown_handler_ = FALSE
    /\ lastOp = Op("init", 0, None, 0, FALSE, <<>>, 0)

NextError ==
    \/ \E t \in Flows : \E i \in DOMAIN spans : \E mark_as_current \in BOOLEAN :
          span_start(t, i, mark_as_current)
    \/ \E t \in Flows : \E i \in DOMAIN spans : \E error \in ErrorInputs :
          span_set_error(t, i, error)
    \/ \E t \in Flows : \E i \in DOMAIN spans : \E reset_current \in BOOLEAN :
          span_finish(t, i, reset_current)

SpecError == InitError /\ [][NextError]_vars

\* ---- The factory's resolution of trace id, parent id and processor ----

\* The span id the caller put in the context, and the one passed as an option.
CurrentSpanIds == {8}
OptionSpanIds == {9}

NextFactory ==
    \/ \E t \in Flows : GlobalTraceManager_initialize(t)
    \/ \E t \in Flows : \E id \in TraceIdInputs \ {None} : call_set_current_trace_id(t, id)
    \/ \E t \in Flows : \E id \in CurrentSpanIds : call_set_current_span_id(t, id)
    \/ \E t \in Flows : call_clear_all(t)
    \/ \E t \in Flows : \E opt_trace_id \in {None, 1} :
       \E opt_parent_span_id \in {None} \cup OptionSpanIds : \E auto_start \in BOOLEAN :
       \E opt_processor \in {NoProcessor, "P2"} :
          /\ spanCount < MaxSpans
          /\ create_span(t, "agent", opt_trace_id, opt_parent_span_id, auto_start,
                         FALSE, opt_processor, TRUE)
    \/ \E t \in Flows : \E i \in DOMAIN spans : span_finish(t, i, FALSE)

SpecFactory == InitSpan /\ [][NextFactory]_vars

\* ---- shutdown() of the wrappers, and the AsyncProcessor (processor_interface.h) ----

\* CompositeProcessor::shutdown: the same loop, over processor->shutdown().
composite_shutdown(behaviour) ==
    /\ callCount < MaxCalls
    /\ DOMAIN behaviour = DOMAIN subReceived
    /\ LET done == ForEach(processors_, 1, behaviour, <<>>)
       IN /\ subShutdowns' = [p \in DOMAIN subShutdowns |->
                                IF \E k \in 1..Len(done.delivered) : done.delivered[k] = p
                                THEN subShutdowns[p] + 1
                                ELSE subShutdowns[p]]
          /\ lastOp' = Op("composite_shutdown", 0, callCount + 1, 0,
                          \E p \in DOMAIN behaviour : behaviour[p] # NoThrow, <<done>>, 0)
    /\ callCount' = callCount + 1
    /\ UNCHANGED <<tracingVars, context_, scopeVars, cacheVars, guardVars, sessionVars, processors_, subReceived, wrapped,
                   shutdown_handler_, filters_>>

\* CompositeProcessor::flush: the same loop, over processor->flush().
composite_flush(behaviour) == composite_process("flush", behaviour)

\* The processor under wrapper w after one more shutdown() ran on it.
ShutdownUnder(w) == [wrapped EXCEPT ![w].shutdowns = @ + 1]

WrapperCall(name, after) ==
    /\ callCount < MaxCalls
    /\ callCount' = callCount + 1
    /\ wrapped' = after
    /\ lastOp' = Op(name, 0, callCount + 1, 0, FALSE, <<>>, 0)
    /\ UNCHANGED <<tracingVars, context_, scopeVars, cacheVars, guardVars, sessionVars, processors_, subReceived, subShutdowns,
                   shutdown_handler_, filters_>>

\* FilteredProcessor::shutdown() { processor_->shutdown(); }
filtered_shutdown == WrapperCall("filtered_shutdown", ShutdownUnder("FilteredProcessor"))

\* AsyncProcessor::shutdown() { processor_->shutdown(); }
async_shutdown == WrapperCall("async_shutdown", ShutdownUnder("AsyncProcessor"))

\* FunctionProcessor::shutdown() { if (shutdown_handler_) shutdown_handler_(); }
function_shutdown ==
    WrapperCall("function_shutdown",
                IF shutdown_handler_ THEN ShutdownUnder("FunctionProcessor") ELSE wrapped)

\* AsyncProcessor::process_span / process_trace: the call is made on the wrapped
\* processor before the wrapper returns.
async_process(kind) ==
    WrapperCall(kind, [wrapped EXCEPT !["AsyncProcessor"].received =
                           Append(@, [kind |-> kind, no |-> callCount + 1])])

async_process_span == async_process("async_process_span")
async_process_trace == async_process("async_process_trace")

NextWrappers ==
    \/ \E behaviour \in Behaviours : composite_shutdown(behaviour)
    \/ \E behaviour \in Behaviours : composite_flush(behaviour)
    \/ filtered_shutdown
    \/ async_shutdown
    \/ function_shutdown
    \/ async_process_span
    \/ async_process_trace

SpecWrappers == InitComposite /\ [][NextWrappers]_vars

\* ---- FilteredProcessor (processor_interface.h) ----

\* The records handed to the processor, named by their content, and a
\* ProcessorFilter, given by the set of records its should_process_* accepts.
Records == {1, 2}
FilterChoices == SUBSET Records

\* A filter chain that consults its first filter only.
ShouldProcess_first_filter(filters, k, record) ==
    k > Len(filters) \/ record \in filters[k]

\* for (filter : filters_) if (!filter->should_process(record)) { false; break; }
\* from filter k on.
RECURSIVE ShouldProcess(_, _, _)
ShouldProcess(filters, k, record) ==
    IF k > Len(filters) THEN TRUE
    ELSE IF record \notin filters[k] THEN FALSE
    ELSE ShouldProcess(filters, k + 1, record)

\* for (record : batch) if (should_process) filtered.push_back(record); from
\* record k on.
RECURSIVE FilterBatch(_, _, _, _)
FilterBatch(filters, batch, k, filtered) ==
    IF k > Len(batch) THEN filtered
    ELSE FilterBatch(filters, batch, k + 1,
                     IF ShouldProcess(filters, 1, batch[k])
                     THEN Append(filtered, batch[k])
                     ELSE filtered)

\* A call on the FilteredProcessor: forwards are the calls it makes on the
\* wrapped processor.
FilteredCall(name, input, forwards) ==
    /\ callCount < MaxFilterCalls
    /\ callCount' = callCount + 1
    /\ wrapped' = [wrapped EXCEPT !["FilteredProcessor"].received = @ \o forwards]
    /\ lastOp' = Op(name, 0, callCount + 1, 0, forwards # <<>>, <<input>>, 0)
    /\ UNCHANGED <<tracingVars, context_, scopeVars, cacheVars, guardVars, sessionVars, processors_, subReceived, subShutdowns,
                   shutdown_handler_, filters_>>

\* FilteredProcessor::process_span / process_trace
filtered_process(kind, record) ==
    FilteredCall("filtered_" \o kind, record,
                 IF ShouldProcess(filters_, 1, record)
                 THEN <<[kind |-> kind, no |-> callCount + 1, data |-> record]>>
                 ELSE <<>>)

filtered_process_span(record) == filtered_process("process_span", record)
filtered_process_trace(record) == filtered_process("process_trace", record)

\* FilteredProcessor::process_spans_batch / process_traces_batch
filtered_process_batch(kind, batch) ==
    LET filtered == FilterBatch(filters_, batch, 1, <<>>)
    IN FilteredCall("filtered_" \o kind, batch,
                    IF filtered # <<>>
                    THEN <<[kind |-> kind, no |-> callCount + 1, data |-> filtered]>>
                    ELSE <<>>)

filtered_process_spans_batch(batch) == filtered_process_batch("process_spans_batch", batch)
filtered_process_traces_batch(batch) == filtered_process_batch("process_traces_batch", batch)

Batches == UNION {[1..n -> Records] : n \in 0..MaxBatch}

\* A FilteredProcessor over one processor and 0..MaxFilters filters.
InitFiltered ==
    /\ now = 1
    /\ pc = [t \in Flows |-> "idle"]
    /\ callTrace = [t \in Flows |-> <<>>]
    /\ holds = [t \in Flows |-> {}]
    /\ context_ = [t \in Flows |-> EmptyContext]
    /\ instance_ = FALSE
    /\ active_traces_ = <<>>
    /\ finished_traces_ = <<>>
    /\ processor_ = NoProcessor
    /\ max_finished_traces_ = DefaultMaxFinishedTraces
    /\ genCount = 0
    /\ spanCount = 0
    /\ spans = <<>>
    /\ default_processor_ = NoProcessor
    /\ traceSink = [p \in Processors |-> <<>>]
    /\ spanSink = [p \in Processors |-> <<>>]
    /\ finishHist = <<>>
    /\ scopes = [t \in Flows |-> <<>>]
    /\ snapshots = [t \in Flows |-> <<>>]
    /\ traceGuards = [t \in Flows |-> <<>>]
    /\ sessions_ = <<>>
    /\ sessionsMade = 0
    /\ received = [t \in Flows |-> <<>>]
    /\ cache_ = <<>>
    /\ access_times_ = <<>>
    /\ max_size_ = DefaultCacheSize
    /\ ttl_ = DefaultTtl
    /\ hits_ = 0
    /\ misses_ = 0
    /\ processors_ = <<>>
    /\ subReceived = <<>>
    /\ callCount = 0
    /\ subShutdowns = <<>>
    /\ wrapped = [w \in Wrappers |-> Untouched]
    /\ shutdown_handler_ = FALSE
    /\ \E n \in 0..MaxFilters : filters_ \in [1..n -> FilterChoices]
    /\ lastOp = Op("init", 0, None, 0, FALSE, <<>>, 0)

NextFiltered ==
    \/ \E record \in Records : filtered_process_span(record)
    \/ \E record \in Records : filtered_process_trace(record)
    \/ \E batch \in Batches : filtered_process_spans_batch(batch)
    \/ \E batch \in Batches : filtered_process_traces_batch(batch)

SpecFiltered == InitFiltered /\ [][NextFiltered]_vars

\* ---- Trace::finish called on an active trace ----

\* get_active_trace(trace_id)->finish()
call_trace_finish(t, trace_id) ==
    /\ Idle(t) /\ MutexFree("traces_mutex_")
    /\ trace_id \in DOMAIN active_traces_
    /\ active_traces_' = [active_traces_ EXCEPT ![trace_id] = Trace_finish(@)]
    /\ lastOp' = Op("trace_finish", t, trace_id, 0, TRUE, <<>>, 0)
    /\ UNCHANGED <<scopeVars, compVars, cacheVars, guardVars, sessionVars, now, flowVars, context_, instance_, finished_traces_,
                   processor_, max_finished_traces_, genCount, spanVars, sinkVars, finishHist>>

NextTraceFinish ==
    \/ Tick
    \/ \E t \in Flows : \E id \in {1, 2} : create_trace(t, id)
    \/ \E t \in Flows : \E id \in {1, 2} : call_trace_finish(t, id)
    \/ \E t \in Flows : finish_trace(t, 1)

SpecTraceFinish == InitTrace /\ [][NextTraceFinish]_vars

\* ---- Two threads adding spans to one trace ----

\* get_active_trace(trace_id)->get_spans()
call_get_spans(t, trace_id) ==
    /\ Idle(t) /\ MutexFree("traces_mutex_") /\ MutexFree("spans_mutex_")
    /\ trace_id \in DOMAIN active_traces_
    /\ lastOp' = Op("get_spans", t, trace_id, 0, TRUE, get_spans(active_traces_[trace_id]), 0)
    /\ UNCHANGED <<scopeVars, compVars, cacheVars, guardVars, sessionVars, now, flowVars, context_, regVars, genCount,
                   spanVars, sinkVars, finishHist>>

\* Thread 1 adds root spans, thread 2 adds children of span 1.
WriterParent(t) == IF t = 1 THEN None ELSE 1

NextWriters ==
    \/ \E t \in Threads : ~(1 \in DOMAIN active_traces_) /\ create_trace(t, 1)
    \/ \E t \in Threads : add_span_to_trace(t, 1, WriterParent(t))
    \/ \E t \in Threads : call_get_spans(t, 1)
    \/ \E t \in Threads : export_trace(t, 1)
    \/ \E t \in Threads : export_trace_get_stats(t)

SpecWriters == InitShared /\ [][NextWriters]_vars

\* ---- Trace::get_stats over spans of several types, some with an error ----

StatsSpanTypes == {"agent", "function"}

\* The caller's span of the given type, with or without an error set.
StatsSpan(trace_id, type, error) ==
    [CallerSpan(trace_id, None) EXCEPT !.type = type, !.error_ = error]

\* get_active_trace(trace_id)->get_stats()
call_get_stats(t, trace_id) ==
    /\ Idle(t) /\ MutexFree("traces_mutex_") /\ MutexFree("spans_mutex_")
    /\ trace_id \in DOMAIN active_traces_
    /\ lastOp' = Op("get_stats", t, trace_id, 0, TRUE, <<get_stats(active_traces_[trace_id])>>, 0)
    /\ UNCHANGED <<scopeVars, compVars, cacheVars, guardVars, sessionVars, now, flowVars, context_, regVars, genCount,
                   spanVars, sinkVars, finishHist>>

NextStats ==
    \/ \E t \in Flows : ~(1 \in DOMAIN active_traces_) /\ create_trace(t, 1)
    \/ \E t \in Flows : \E type \in StatsSpanTypes : \E error \in {<<>>} \cup {<<e>> : e \in Errors} :
          add_span_to_trace_of(t, 1, StatsSpan(1, type, error))
    \/ \E t \in Flows : call_trace_finish(t, 1)
    \/ \E t \in Flows : call_get_stats(t, 1)

SpecStats == InitTrace /\ [][NextStats]_vars

\* ---- start_current_trace / finish_current_trace (traces.cpp) ----

\* start_current_trace(trace_id): create_trace, then set_current_trace_id.
start_current_trace(t, trace_id) ==
    /\ Idle(t) /\ MutexFree("traces_mutex_")
    /\ trace_id = None => genCount < MaxGen
    /\ LET id == IF trace_id # None THEN trace_id ELSE generate_trace_id
       IN /\ active_traces_' = WithTrace(active_traces_, id, Trace(id))
          /\ genCount' = IF trace_id = None THEN genCount + 1 ELSE genCount
          /\ context_' = [context_ EXCEPT ![t] = set_current_trace_id(@, id)]
          /\ lastOp' = Op("start_current_trace", t, id, 0, FALSE, <<id>>, 0)
    /\ UNCHANGED <<scopeVars, compVars, cacheVars, guardVars, sessionVars, now, flowVars, instance_, finished_traces_, processor_,
                   max_finished_traces_, spanVars, sinkVars, finishHist>>

\* finish_current_trace up to the call of export_trace inside finish_trace, or
\* to its end when there is no current trace id, the trace is not active or no
\* processor is set.
finish_current_trace(t) ==
    /\ Idle(t) /\ MutexFree("traces_mutex_")
    /\ LET trace_id == get_current_trace_id(context_[t])
       IN IF trace_id = None
          THEN /\ lastOp' = Op("finish_current_trace", t, None, 0, FALSE, <<>>, 0)
               /\ UNCHANGED <<flowVars, context_, active_traces_, finished_traces_, traceSink,
                              finishHist>>
          ELSE IF trace_id \notin DOMAIN active_traces_
          THEN /\ context_' = [context_ EXCEPT ![t] = reset_current_trace(@)]
               /\ lastOp' = Op("finish_current_trace", t, trace_id, 0, FALSE, <<>>, 0)
               /\ UNCHANGED <<flowVars, active_traces_, finished_traces_, traceSink, finishHist>>
          ELSE /\ Len(finishHist) < MaxFinishes
               /\ finishHist' = Append(finishHist, trace_id)
               /\ LET tr == Trace_finish(active_traces_[trace_id])
                  IN IF processor_ = NoProcessor
                     THEN /\ FinishMove(t, tr, <<>>)
                          /\ context_' = [context_ EXCEPT ![t] = reset_current_trace(@)]
                          /\ UNCHANGED flowVars
                     ELSE /\ active_traces_' = [active_traces_ EXCEPT ![trace_id] = tr]
                          /\ pc' = [pc EXCEPT ![t] = "finish_current_trace:export_trace"]
                          /\ callTrace' = [callTrace EXCEPT ![t] = <<tr>>]
                          /\ holds' = [holds EXCEPT ![t] = {"traces_mutex_", "spans_mutex_"}]
                          /\ lastOp' = Op("finish_current_trace:begin", t, trace_id, 0, TRUE, <<>>, 0)
                          /\ UNCHANGED <<context_, finished_traces_, traceSink>>
    /\ UNCHANGED <<scopeVars, compVars, cacheVars, guardVars, sessionVars, now, instance_, processor_, max_finished_traces_,
                   genCount, spanVars, spanSink>>

\* finish_current_trace from get_stats' lock inside export_trace to its end:
\* the rest of finish_trace, then reset_current_trace.
finish_current_trace_export(t) ==
    /\ pc[t] = "finish_current_trace:export_trace"
    /\ \E outcome \in RelockOutcomes :
         IF outcome = "deadlock"
         THEN /\ pc' = [pc EXCEPT ![t] = "finish_current_trace:blocked"]
              /\ lastOp' = Op("finish_current_trace:blocked", t, callTrace[t][1].trace_id, 0,
                              TRUE, <<>>, 0)
              /\ UNCHANGED <<callTrace, holds, context_, active_traces_, finished_traces_,
                             traceSink>>
         ELSE /\ FinishMove(t, callTrace[t][1], export_trace_result(callTrace[t][1], outcome))
              /\ context_' = [context_ EXCEPT ![t] = reset_current_trace(@)]
              /\ pc' = [pc EXCEPT ![t] = "idle"]
              /\ callTrace' = [callTrace EXCEPT ![t] = <<>>]
              /\ holds' = [holds EXCEPT ![t] = {}]
    /\ UNCHANGED <<scopeVars, compVars, cacheVars, guardVars, sessionVars, now, instance_, processor_, max_finished_traces_,
                   genCount, spanVars, spanSink, finishHist>>

NextCurrent ==
    \/ \E t \in Flows : \E trace_id \in {None, 1, 2} : start_current_trace(t, trace_id)
    \/ \E t \in Flows : finish_current_trace(t)
    \/ \E t \in Flows : finish_current_trace_export(t)
    \/ \E t \in Flows : call_set_current_trace_id(t, 2)
    \/ \E t \in Flows : call_reset_current_trace(t)

SpecCurrent == Init /\ [][NextCurrent]_vars

\* ---- The life of the global trace manager (traces.cpp) ----

\* GlobalTraceManager::instance(): makes a default TraceManager when there is none.
GlobalTraceManager_instance(t) ==
    /\ Idle(t)
    /\ instance_' = TRUE
    /\ IF instance_
       THEN UNCHANGED <<active_traces_, finished_traces_, processor_, max_finished_traces_>>
       ELSE /\ active_traces_' = <<>>
            /\ finished_traces_' = <<>>
            /\ processor_' = NoProcessor
            /\ max_finished_traces_' = DefaultMaxFinishedTraces
    /\ lastOp' = Op("instance", t, None, 0, FALSE, <<>>, 0)
    /\ UNCHANGED <<scopeVars, compVars, cacheVars, guardVars, sessionVars, now, flowVars, context_, genCount, spanVars, sinkVars,
                   finishHist>>

\* GlobalTraceManager::shutdown(): instance_.reset() destroys the manager and
\* the traces it holds.
GlobalTraceManager_shutdown(t) ==
    /\ Idle(t) /\ MutexFree("traces_mutex_")
    /\ instance_' = FALSE
    /\ active_traces_' = <<>>
    /\ finished_traces_' = <<>>
    /\ processor_' = NoProcessor
    /\ max_finished_traces_' = DefaultMaxFinishedTraces
    /\ lastOp' = Op("shutdown", t, None, 0, FALSE, <<>>, 0)
    /\ UNCHANGED <<scopeVars, compVars, cacheVars, guardVars, sessionVars, now, flowVars, context_, genCount, spanVars, sinkVars,
                   finishHist>>

\* GlobalTraceManager::is_initialized()
is_initialized == instance_

call_is_initialized(t) ==
    /\ Idle(t)
    /\ lastOp' = Op("is_initialized", t, None, 0, is_initialized, <<>>, 0)
    /\ UNCHANGED <<scopeVars, compVars, cacheVars, guardVars, sessionVars, now, flowVars, context_, regVars, genCount, spanVars,
                   sinkVars, finishHist>>

NextGlobal ==
    \/ \E t \in Flows : GlobalTraceManager_initialize(t)
    \/ \E t \in Flows : GlobalTraceManager_shutdown(t)
    \/ \E t \in Flows : GlobalTraceManager_instance(t)
    \/ \E t \in Flows : GlobalTraceManager_create_trace(t, 1)
    \/ \E t \in Flows : call_is_initialized(t)
    \/ \E t \in Flows : \E opt_trace_id \in {None, 1} : \E auto_start \in BOOLEAN :
          /\ spanCount < MaxSpans
          /\ create_span(t, "agent", opt_trace_id, None, auto_start, FALSE, NoProcessor, TRUE)

SpecGlobal == InitSpan /\ [][NextGlobal]_vars

\* ---- get_context_snapshot / restore_from_snapshot (scope.h) ----

\* A snapshot that leaves out the disabled flag.
get_context_snapshot_without_disabled(c) ==
    [key \in {k \in {"current_trace_id", "current_span_id"} : c[k] # None} |-> c[key]]

\* get_context_snapshot(): a map with an entry for each of the three keys that
\* is set; the disabled flag is stored as the string "true".
get_context_snapshot(c) ==
    [key \in (IF get_current_trace_id(c) # None THEN {"current_trace_id"} ELSE {}) \cup
             (IF get_current_span_id(c) # None THEN {"current_span_id"} ELSE {}) \cup
             (IF is_trace_disabled(c) THEN {"trace_disabled"} ELSE {}) |->
        IF key = "trace_disabled" THEN "true" ELSE c[key]]

\* The TracingContext restore_from_snapshot builds from a snapshot.
ContextOfSnapshot(snapshot) ==
    [current_trace_id |-> IF "current_trace_id" \in DOMAIN snapshot
                          THEN snapshot["current_trace_id"] ELSE None,
     current_span_id  |-> IF "current_span_id" \in DOMAIN snapshot
                          THEN snapshot["current_span_id"] ELSE None,
     trace_disabled   |-> IF "trace_disabled" \in DOMAIN snapshot
                          THEN snapshot["trace_disabled"] = "true" ELSE FALSE]

restore_from_snapshot_impl(c, snapshot) == ScopedContext_ctx(c, ContextOfSnapshot(snapshot))

\* s = get_context_snapshot(): the caller keeps s (taken records the triple at
\* that time, a ghost field).
call_get_context_snapshot(t) ==
    /\ Idle(t)
    /\ snapshots' = [snapshots EXCEPT ![t] = <<[snapshot |-> get_context_snapshot(context_[t]),
                                                taken |-> Triple(context_[t])]>>]
    /\ lastOp' = Op("get_context_snapshot", t, None, 0, FALSE, <<>>, 0)
    /\ UNCHANGED <<tracingVars, context_, scopes, compVars, cacheVars, guardVars, sessionVars>>

\* guard = restore_from_snapshot(s)
restore_from_snapshot(t) ==
    /\ snapshots[t] # <<>>
    /\ EnterScope("restore_from_snapshot", t,
                  restore_from_snapshot_impl(context_[t], snapshots[t][1].snapshot))

NextSnapshot ==
    \/ \E t \in Flows : \E id \in {1, 2} : call_set_current_trace_id(t, id)
    \/ \E t \in Flows : call_reset_current_trace(t)
    \/ \E t \in Flows : call_set_current_span_id(t, 1)
    \/ \E t \in Flows : call_reset_current_span(t)
    \/ \E t \in Flows : disable_tracing(t)
    \/ \E t \in Flows : enable_tracing(t)
    \/ \E t \in Flows : call_get_context_snapshot(t)
    \/ \E t \in Flows : scopes[t] = <<>> /\ restore_from_snapshot(t)
    \/ \E t \in Flows : scope_end(t)

SpecSnapshot == InitSpan /\ [][NextSnapshot]_vars

\* ---- SessionCache (memory/util.h, memory/util.cpp) ----

\* Session ids (ordered as std::map orders its keys), the sessions stored under
\* them, the null shared_ptr, and the ttl values the cache is built with.
SessionIds == {1, 2, 3}
Sessions == {"s1", "s2"}
NoSession == "nullptr"
TtlChoices == {0, 1}

\* SessionCache::is_expired(session_id)
is_expired(times, id, ttl) ==
    IF id \notin DOMAIN times THEN TRUE ELSE (now - times[id]) > ttl

\* std::min_element over access_times_: the first entry in key order among
\* those with the least access time.
OldestOf(times) ==
    CHOOSE k \in DOMAIN times :
        \A j \in DOMAIN times : times[k] < times[j] \/ (times[k] = times[j] /\ k <= j)

Without(f, k) == [j \in DOMAIN f \ {k} |-> f[j]]
With(f, k, v) == [j \in DOMAIN f \cup {k} |-> IF j = k THEN v ELSE f[j]]

\* An eviction that erases the session and keeps its access time.
evict_oldest_keeps_access_time(c) ==
    IF DOMAIN c.access_times_ = {} THEN c
    ELSE [cache_ |-> IF OldestOf(c.access_times_) \in DOMAIN c.cache_
                     THEN Without(c.cache_, OldestOf(c.access_times_)) ELSE c.cache_,
          access_times_ |-> c.access_times_]

\* SessionCache::evict_oldest()
evict_oldest(c) ==
    IF DOMAIN c.access_times_ = {} THEN c
    ELSE [cache_ |-> IF OldestOf(c.access_times_) \in DOMAIN c.cache_
                     THEN Without(c.cache_, OldestOf(c.access_times_)) ELSE c.cache_,
          access_times_ |-> Without(c.access_times_, OldestOf(c.access_times_))]

\* A put that makes room after it has stored the entry.
SessionCache_put_evicts_last(c, id, session, max_size) ==
    LET stored == [cache_ |-> With(c.cache_, id, session),
                   access_times_ |-> With(c.access_times_, id, now)]
    IN IF Cardinality(DOMAIN c.cache_) >= max_size THEN evict_oldest(stored) ELSE stored

\* SessionCache::put: evict the oldest entry when the cache is full, then store.
SessionCache_put(c, id, session, max_size) ==
    LET room == IF Cardinality(DOMAIN c.cache_) >= max_size THEN evict_oldest(c) ELSE c
    IN [cache_ |-> With(room.cache_, id, session),
        access_times_ |-> With(room.access_times_, id, now)]

CacheCall(name, id, res) ==
    /\ lastOp' = Op(name, 0, id, 0, FALSE, res, 0)
    /\ UNCHANGED <<tracingVars, context_, scopeVars, compVars, guardVars, sessionVars,
                   max_size_, ttl_>>

\* SessionCache::get(session_id)
cache_get(id) ==
    /\ hits_ + misses_ < MaxGets
    /\ IF id \in DOMAIN cache_ /\ ~is_expired(access_times_, id, ttl_)
       THEN /\ access_times_' = With(access_times_, id, now)
            /\ hits_' = hits_ + 1
            /\ misses_' = misses_
            /\ CacheCall("cache_get", id, <<cache_[id]>>)
       ELSE /\ misses_' = misses_ + 1
            /\ UNCHANGED <<access_times_, hits_>>
            /\ CacheCall("cache_get", id, <<NoSession>>)
    /\ UNCHANGED cache_

\* SessionCache::put(session_id, session); lastOp.found tells whether the cache
\* was full when the call began.
cache_put(id, session) ==
    /\ LET c == SessionCache_put([cache_ |-> cache_, access_times_ |-> access_times_],
                                 id, session, max_size_)
       IN cache_' = c.cache_ /\ access_times_' = c.access_times_
    /\ lastOp' = Op("cache_put", 0, id, 0, Cardinality(DOMAIN cache_) >= max_size_,
                    <<session>>, 0)
    /\ UNCHANGED <<tracingVars, context_, scopeVars, compVars, guardVars, sessionVars,
                   max_size_, ttl_, hits_, misses_>>

\* SessionCache::remove(session_id)
cache_remove(id) ==
    /\ cache_' = Without(cache_, id)
    /\ access_times_' = Without(access_times_, id)
    /\ CacheCall("cache_remove", id, <<>>)
    /\ UNCHANGED <<hits_, misses_>>

\* SessionCache::clear()
cache_clear ==
    /\ cache_' = <<>> /\ access_times_' = <<>>
    /\ hits_' = 0 /\ misses_' = 0
    /\ CacheCall("cache_clear", None, <<>>)

\* SessionCache::cleanup_expired()
cache_cleanup_expired ==
    /\ LET gone == {k \in DOMAIN cache_ : k \in DOMAIN access_times_
                                          /\ (now - access_times_[k]) > ttl_}
       IN /\ cache_' = [k \in DOMAIN cache_ \ gone |-> cache_[k]]
          /\ access_times_' = [k \in DOMAIN access_times_ \ gone |-> access_times_[k]]
    /\ CacheCall("cache_cleanup_expired", None, <<>>)
    /\ UNCHANGED <<hits_, misses_>>

\* The system clock advances between calls on the cache.
CacheTick ==
    /\ now < MaxTime
    /\ now' = now + 1
    /\ lastOp' = Op("tick", 0, None, 0, FALSE, <<>>, 0)
    /\ UNCHANGED <<flowVars, context_, regVars, genCount, spanVars, sinkVars, finishHist,
                   scopeVars, compVars, cacheVars, guardVars, sessionVars>>

\* SessionCache(max_size, ttl)
InitCache ==
    /\ now = 1
    /\ pc = [t \in Flows |-> "idle"]
    /\ callTrace = [t \in Flows |-> <<>>]
    /\ holds = [t \in Flows |-> {}]
    /\ context_ = [t \in Flows |-> EmptyContext]
    /\ instance_ = FALSE
    /\ active_traces_ = <<>>
    /\ finished_traces_ = <<>>
    /\ processor_ = NoProcessor
    /\ max_finished_traces_ = DefaultMaxFinishedTraces
    /\ genCount = 0
    /\ spanCount = 0
    /\ spans = <<>>
    /\ default_processor_ = NoProcessor
    /\ traceSink = [p \in Processors |-> <<>>]
    /\ spanSink = [p \in Processors |-> <<>>]
    /\ finishHist = <<>>
    /\ scopes = [t \in Flows |-> <<>>]
    /\ snapshots = [t \in Flows |-> <<>>]
    /\ traceGuards = [t \in Flows |-> <<>>]
    /\ sessions_ = <<>>
    /\ sessionsMade = 0
    /\ received = [t \in Flows |-> <<>>]
    /\ processors_ = <<>>
    /\ subReceived = <<>>
    /\ callCount = 0
    /\ subShutdowns = <<>>
    /\ wrapped = [w \in Wrappers |-> Untouched]
    /\ shutdown_handler_ = FALSE
    /\ filters_ = <<>>
    /\ cache_ = <<>>
    /\ access_times_ = <<>>
    /\ max_size_ \in 0..MaxCacheSize
    /\ ttl_ \in TtlChoices
    /\ hits_ = 0
    /\ misses_ = 0
    /\ lastOp = Op("init", 0, None, 0, FALSE, <<>>, 0)

NextCache ==
    \/ CacheTick
    \/ \E id \in SessionIds : cache_get(id)
    \/ \E id \in SessionIds : \E session \in Sessions : cache_put(id, session)
    \/ \E id \in SessionIds : cache_remove(id)
    \/ cache_clear
    \/ cache_cleanup_expired

SpecCache == InitCache /\ [][NextCache]_vars

\* ---- An outer span and an inner span started and finished in LIFO order ----

\* Span 1 (outer, a root span of trace 1) and span 2 (inner, its child), made
\* with auto_start = false.
InitNested ==
    /\ now = 1
    /\ pc = [t \in Flows |-> "idle"]
    /\ callTrace = [t \in Flows |-> <<>>]
    /\ holds = [t \in Flows |-> {}]
    /\ context_ = [t \in Flows |-> EmptyContext]
    /\ instance_ = FALSE
    /\ active_traces_ = <<>>
    /\ finished_traces_ = <<>>
    /\ processor_ = NoProcessor
    /\ max_finished_traces_ = DefaultMaxFinishedTraces
    /\ genCount = 0
    /\ spanCount = 2
    /\ spans = [i \in {1, 2} |-> IF i = 1 THEN SpanImpl(1, 1, None, "agent", NoProcessor)
                                ELSE SpanImpl(1, 2, 1, "function", NoProcessor)]
    /\ default_processor_ = NoProcessor
    /\ traceSink = [p \in Processors |-> <<>>]
    /\ spanSink = [p \in Processors |-> [i \in {1, 2} |-> 0]]
    /\ finishHist = <<>>
    /\ scopes = [t \in Flows |-> <<>>]
    /\ snapshots = [t \in Flows |-> <<>>]
    /\ traceGuards = [t \in Flows |-> <<>>]
    /\ sessions_ = <<>>
    /\ sessionsMade = 0
    /\ received = [t \in Flows |-> <<>>]
    /\ cache_ = <<>>
    /\ access_times_ = <<>>
    /\ max_size_ = DefaultCacheSize
    /\ ttl_ = DefaultTtl
    /\ hits_ = 0
    /\ misses_ = 0
    /\ processors_ = <<>>
    /\ subReceived = <<>>
    /\ callCount = 0
    /\ subShutdowns = [p \in DOMAIN subReceived |-> 0]
    /\ wrapped = [w \in Wrappers |-> Untouched]
    /\ filters_ = <<>>
    /\ shutdown_handler_ = FALSE
    /\ lastOp = Op("init", 0, None, 0, FALSE, <<>>, 0)

Started(i) == get_started_at(spans[i]) # None
Unfinished(i) == spans[i].finishes = 0

NextNested ==
    \/ Tick
    \/ \E t \in Flows : \E i \in DOMAIN spans : \E error \in Errors :
          Started(i) /\ Unfinished(i) /\ span_set_error(t, i, error)
    \/ \E t \in Flows : \E mark_as_current \in BOOLEAN :
          ~Started(1) /\ span_start(t, 1, mark_as_current)
    \/ \E t \in Flows : \E mark_as_current \in BOOLEAN :
          Started(1) /\ Unfinished(1) /\ ~Started(2) /\ span_start(t, 2, mark_as_current)
    \/ \E t \in Flows : \E reset_current \in BOOLEAN :
          Started(2) /\ span_finish(t, 2, reset_current)
    \/ \E t \in Flows : \E reset_current \in BOOLEAN :
          Started(1) /\ (Started(2) => ~Unfinished(2)) /\ span_finish(t, 1, reset_current)

SpecNested == InitNested /\ [][NextNested]_vars

\* ---- TraceGuard (traces.h, traces.cpp) ----

\* ScopedContext::operator=(ScopedContext&&) run in context c: the assigned-to
\* guard first restores its own previous context when it still has to, then
\* takes the other guard's previous context and restore flag.
ScopedContext_move_assign(self, other, c) ==
    [guard   |-> [previous_context_ |-> other.previous_context_,
                  should_restore_ |-> other.should_restore_],
     context |-> IF self.should_restore_ THEN self.previous_context_ ELSE c]

\* The members of a TraceGuard, and (entered, a ghost field) the triple that
\* held when its constructor began.
TraceGuardObject(trace_id, should_finish, scope, c) ==
    [trace_id_ |-> trace_id, should_finish_ |-> should_finish, scope_ |-> scope,
     entered |-> Triple(c)]

\* TraceGuard(trace_id): scope_ is initialised with create_disabled_scope(),
\* start_current_trace runs on the global manager, then scope_ is assigned
\* create_trace_scope(trace_id_).
TraceGuard_ctor(t, trace_id) ==
    /\ Idle(t) /\ MutexFree("traces_mutex_")
    /\ Len(traceGuards[t]) < MaxDepth
    /\ trace_id = None => genCount < MaxGen
    /\ LET id == IF trace_id # None THEN trace_id ELSE generate_trace_id
           disabled == create_disabled_scope_impl(context_[t])
           started == set_current_trace_id(disabled.context, id)
           scope == create_trace_scope_impl(started, id)
           assigned == ScopedContext_move_assign(disabled.guard, scope.guard, scope.context)
       IN /\ active_traces_' = WithTrace(IF instance_ THEN active_traces_ ELSE <<>>, id, Trace(id))
          /\ genCount' = IF trace_id = None THEN genCount + 1 ELSE genCount
          /\ context_' = [context_ EXCEPT ![t] = assigned.context]
          /\ traceGuards' = [traceGuards EXCEPT ![t] =
                               Append(@, TraceGuardObject(id, TRUE, assigned.guard, context_[t]))]
          /\ lastOp' = Op("TraceGuard", t, id, 0, FALSE, <<id>>, 0)
    /\ instance_' = TRUE
    /\ finished_traces_' = IF instance_ THEN finished_traces_ ELSE <<>>
    /\ processor_' = IF instance_ THEN processor_ ELSE NoProcessor
    /\ max_finished_traces_' = IF instance_ THEN max_finished_traces_
                               ELSE DefaultMaxFinishedTraces
    /\ UNCHANGED <<now, flowVars, spanVars, sinkVars, finishHist, scopeVars, compVars,
                   cacheVars, sessionVars>>

\* The end of ~TraceGuard(): the members are destroyed, scope_ restoring the
\* context it saved.
TraceGuard_members_dtor(t) ==
    /\ context_' = [context_ EXCEPT ![t] =
                      ScopedContext_dtor(traceGuards[t][Len(traceGuards[t])].scope_, @)]
    /\ traceGuards' = [traceGuards EXCEPT ![t] = SubSeq(@, 1, Len(@) - 1)]

\* ~TraceGuard() of the innermost guard, up to the call of export_trace inside
\* finish_trace, or to its end when the guard does not finish, the trace is
\* not active or no processor is set.
TraceGuard_dtor(t) ==
    /\ Idle(t) /\ MutexFree("traces_mutex_")
    /\ traceGuards[t] # <<>>
    /\ LET g == traceGuards[t][Len(traceGuards[t])]
       IN IF ~g.should_finish_ \/ g.trace_id_ \notin DOMAIN active_traces_
          THEN /\ TraceGuard_members_dtor(t)
               /\ lastOp' = Op("~TraceGuard", t, g.trace_id_, 0, FALSE, <<>>, 0)
               /\ UNCHANGED <<flowVars, active_traces_, finished_traces_, traceSink, finishHist>>
          ELSE /\ Len(finishHist) < MaxFinishes
               /\ finishHist' = Append(finishHist, g.trace_id_)
               /\ LET tr == Trace_finish(active_traces_[g.trace_id_])
                  IN IF processor_ = NoProcessor
                     THEN /\ FinishMove(t, tr, <<>>)
                          /\ TraceGuard_members_dtor(t)
                          /\ UNCHANGED flowVars
                     ELSE /\ active_traces_' = [active_traces_ EXCEPT ![g.trace_id_] = tr]
                          /\ pc' = [pc EXCEPT ![t] = "~TraceGuard:export_trace"]
                          /\ callTrace' = [callTrace EXCEPT ![t] = <<tr>>]
                          /\ holds' = [holds EXCEPT ![t] = {"traces_mutex_", "spans_mutex_"}]
                          /\ lastOp' = Op("~TraceGuard:begin", t, g.trace_id_, 0, TRUE, <<>>, 0)
                          /\ UNCHANGED <<context_, traceGuards, finished_traces_, traceSink>>
    /\ UNCHANGED <<now, instance_, processor_, max_finished_traces_, genCount, spanVars, spanSink,
                   scopeVars, compVars, cacheVars, sessionVars>>

\* ~TraceGuard() from get_stats' lock inside export_trace to its end.
TraceGuard_dtor_export(t) ==
    /\ pc[t] = "~TraceGuard:export_trace"
    /\ \E outcome \in RelockOutcomes :
         IF outcome = "deadlock"
         THEN /\ pc' = [pc EXCEPT ![t] = "~TraceGuard:blocked"]
              /\ lastOp' = Op("~TraceGuard:blocked", t, callTrace[t][1].trace_id, 0, TRUE, <<>>, 0)
              /\ UNCHANGED <<callTrace, holds, context_, traceGuards, active_traces_,
                             finished_traces_, traceSink>>
         ELSE /\ FinishMove(t, callTrace[t][1], export_trace_result(callTrace[t][1], outcome))
              /\ TraceGuard_members_dtor(t)
              /\ pc' = [pc EXCEPT ![t] = "idle"]
              /\ callTrace' = [callTrace EXCEPT ![t] = <<>>]
              /\ holds' = [holds EXCEPT ![t] = {}]
    /\ UNCHANGED <<now, instance_, processor_, max_finished_traces_, genCount, spanVars, spanSink,
                   finishHist, scopeVars, compVars, cacheVars, sessionVars>>

\* The global manager made by GlobalTraceManager::initialize(processor).
InitGuard ==
    /\ now = 1
    /\ pc = [t \in Flows |-> "idle"]
    /\ callTrace = [t \in Flows |-> <<>>]
    /\ holds = [t \in Flows |-> {}]
    /\ context_ = [t \in Flows |-> EmptyContext]
    /\ instance_ = TRUE
    /\ active_traces_ = <<>>
    /\ finished_traces_ = <<>>
    /\ processor_ \in {NoProcessor, "P1"}
    /\ max_finished_traces_ = DefaultMaxFinishedTraces
    /\ genCount = 0
    /\ spanCount = 0
    /\ spans = <<>>
    /\ default_processor_ = NoProcessor
    /\ traceSink = [p \in Processors |-> <<>>]
    /\ spanSink = [p \in Processors |-> <<>>]
    /\ finishHist = <<>>
    /\ scopes = [t \in Flows |-> <<>>]
    /\ snapshots = [t \in Flows |-> <<>>]
    /\ traceGuards = [t \in Flows |-> <<>>]
    /\ sessions_ = <<>>
    /\ sessionsMade = 0
    /\ received = [t \in Flows |-> <<>>]
    /\ cache_ = <<>>
    /\ access_times_ = <<>>
    /\ max_size_ = DefaultCacheSize
    /\ ttl_ = DefaultTtl
    /\ hits_ = 0
    /\ misses_ = 0
    /\ processors_ = <<>>
    /\ subReceived = <<>>
    /\ callCount = 0
    /\ subShutdowns = [p \in DOMAIN subReceived |-> 0]
    /\ wrapped = [w \in Wrappers |-> Untouched]
    /\ filters_ = <<>>
    /\ shutdown_handler_ = FALSE
    /\ lastOp = Op("init", 0, None, 0, FALSE, <<>>, 0)

NextGuard ==
    \/ \E t \in Flows : \E trace_id \in {None, 1} : TraceGuard_ctor(t, trace_id)
    \/ \E t \in Flows : TraceGuard_dtor(t)
    \/ \E t \in Flows : TraceGuard_dtor_export(t)
    \/ \E t \in Flows : traceGuards[t] = <<>> /\ call_set_current_trace_id(t, 2)
    \/ \E t \in Flows : traceGuards[t] = <<>> /\ call_set_current_span_id(t, 2)
    \/ \E t \in Flows : disable_tracing(t)
    \/ \E t \in Flows : enable_tracing(t)

SpecGuard == InitGuard /\ [][NextGuard]_vars

\* ---- One span started and finished any number of times as the clock advances ----

NextLifecycle ==
    \/ Tick
    \/ \E t \in Flows : call_set_current_trace_id(t, 2)
    \/ \E t \in Flows : call_set_current_span_id(t, 2)
    \/ \E t \in Flows : \E i \in DOMAIN spans : \E mark_as_current \in BOOLEAN :
          span_start(t, i, mark_as_current)
    \/ \E t \in Flows : \E i \in DOMAIN spans : \E reset_current \in BOOLEAN :
          span_finish(t, i, reset_current)

SpecLifecycle == InitError /\ [][NextLifecycle]_vars

\* ---- Trace pointers handed out by the registry (traces.cpp) ----

\* get_active_trace and get_finished_trace return the raw pointer of a Trace
\* the registry owns through a unique_ptr; the lock is released on return.
\* The registry still owns the Trace a pointer was taken from only if one of
\* its traces has the pointee's id and start time; when none has, the pointee
\* has been destroyed.
Owns(pointee) ==
    \/ /\ pointee.trace_id \in DOMAIN active_traces_
       /\ active_traces_[pointee.trace_id].started_at_ = pointee.started_at_
    \/ \E k \in DOMAIN finished_traces_ :
          /\ finished_traces_[k].trace_id = pointee.trace_id
          /\ finished_traces_[k].started_at_ = pointee.started_at_

\* The caller keeps the pointer a lookup returned (nothing for nullptr).
HoldPointer(name, t, trace_id, found) ==
    /\ pc' = [pc EXCEPT ![t] = IF found # <<>> THEN "holding" ELSE "idle"]
    /\ callTrace' = [callTrace EXCEPT ![t] = found]
    /\ lastOp' = Op(name, t, trace_id, 0, found # <<>>, <<>>, 0)
    /\ UNCHANGED <<now, holds, context_, regVars, genCount, spanVars, sinkVars, finishHist,
                   scopeVars, compVars, cacheVars, guardVars, sessionVars>>

\* TraceManager::get_active_trace(trace_id)
get_active_trace(t, trace_id) ==
    /\ Idle(t) /\ MutexFree("traces_mutex_")
    /\ HoldPointer("get_active_trace", t, trace_id,
                   IF trace_id \in DOMAIN active_traces_
                   THEN <<active_traces_[trace_id]>> ELSE <<>>)

\* TraceManager::get_finished_trace(trace_id): the first finished trace of that id.
get_finished_trace(t, trace_id) ==
    /\ Idle(t) /\ MutexFree("traces_mutex_")
    /\ LET found == {k \in DOMAIN finished_traces_ : finished_traces_[k].trace_id = trace_id}
       IN HoldPointer("get_finished_trace", t, trace_id,
                      IF found # {}
                      THEN <<finished_traces_[CHOOSE k \in found : \A j \in found : k <= j]>>
                      ELSE <<>>)

\* Reading a destroyed Trace is undefined: the read returns what the freed
\* memory holds ("stale") or the process dies ("crash").
UseAfterFreeOutcomes == {"stale", "crash"}

\* The caller reads through the pointer it holds (trace->get_trace_id()) and
\* drops it.
use_trace(t) ==
    /\ pc[t] = "holding"
    /\ \E outcome \in IF Owns(callTrace[t][1]) THEN {"read"} ELSE UseAfterFreeOutcomes :
          /\ pc' = IF outcome = "crash" THEN [u \in DOMAIN pc |-> "crashed"]
                   ELSE [pc EXCEPT ![t] = "idle"]
          /\ lastOp' = Op("use_trace", t, callTrace[t][1].trace_id, 0, outcome = "read",
                          <<outcome>>, 0)
    /\ callTrace' = [callTrace EXCEPT ![t] = <<>>]
    /\ UNCHANGED <<now, holds, context_, regVars, genCount, spanVars, sinkVars, finishHist,
                   scopeVars, compVars, cacheVars, guardVars, sessionVars>>

\* One TraceManager(nullptr, 1) used by two threads.
InitHeld ==
    /\ now = 1
    /\ pc = [t \in Threads |-> "idle"]
    /\ callTrace = [t \in Threads |-> <<>>]
    /\ holds = [t \in Threads |-> {}]
    /\ context_ = [t \in Threads |-> EmptyContext]
    /\ instance_ = FALSE
    /\ active_traces_ = <<>>
    /\ finished_traces_ = <<>>
    /\ processor_ = NoProcessor
    /\ max_finished_traces_ = 1
    /\ genCount = 0
    /\ spanCount = 0
    /\ spans = <<>>
    /\ default_processor_ = NoProcessor
    /\ traceSink = [p \in Processors |-> <<>>]
    /\ spanSink = [p \in Processors |-> <<>>]
    /\ finishHist = <<>>
    /\ scopes = [t \in Threads |-> <<>>]
    /\ snapshots = [t \in Threads |-> <<>>]
    /\ traceGuards = [t \in Threads |-> <<>>]
    /\ sessions_ = <<>>
    /\ sessionsMade = 0
    /\ received = [t \in Threads |-> <<>>]
    /\ cache_ = <<>>
    /\ access_times_ = <<>>
    /\ max_size_ = DefaultCacheSize
    /\ ttl_ = DefaultTtl
    /\ hits_ = 0
    /\ misses_ = 0
    /\ processors_ = <<>>
    /\ subReceived = <<>>
    /\ callCount = 0
    /\ subShutdowns = [p \in DOMAIN subReceived |-> 0]
    /\ wrapped = [w \in Wrappers |-> Untouched]
    /\ filters_ = <<>>
    /\ shutdown_handler_ = FALSE
    /\ lastOp = Op("init", 0, None, 0, FALSE, <<>>, 0)

NextHeld ==
    \/ Tick
    \/ \E t \in Threads : \E id \in {1, 2} : create_trace(t, id)
    \/ \E t \in Threads : \E id \in {1, 2} : finish_trace(t, id)
    \/ \E t \in Threads : clear_all_traces(t)
    \/ \E t \in Threads : \E id \in {1, 2} : get_active_trace(t, id)
    \/ \E t \in Threads : \E id \in {1, 2} : get_finished_trace(t, id)
    \/ \E t \in Threads : use_trace(t)

SpecHeld == InitHeld /\ [][NextHeld]_vars

\* ---- finish_trace with a processor whose process_trace may throw ----

\* finish_trace from get_stats' lock inside export_trace to its end, with a
\* processor whose process_trace returns or throws (behaviour).  The catch
\* clause of finish_trace names std::exception: anything else leaves
\* finish_trace before the trace is moved, unlocking traces_mutex_ on the way.
finish_trace_export_sink(t, behaviour) ==
    /\ pc[t] = "finish_trace:export_trace"
    /\ \E outcome \in RelockOutcomes :
         LET tr == callTrace[t][1]
             exported == export_trace_result(tr, outcome)
             thrown == IF exported # <<>> THEN behaviour ELSE NoThrow
         IN IF outcome = "deadlock"
            THEN /\ pc' = [pc EXCEPT ![t] = "finish_trace:blocked"]
                 /\ lastOp' = Op("finish_trace:blocked", t, tr.trace_id, 0, TRUE, <<>>, 0)
                 /\ UNCHANGED <<callTrace, holds, active_traces_, finished_traces_, traceSink>>
            ELSE /\ pc' = [pc EXCEPT ![t] = "idle"]
                 /\ callTrace' = [callTrace EXCEPT ![t] = <<>>]
                 /\ holds' = [holds EXCEPT ![t] = {}]
                 /\ IF thrown # NoThrow /\ ~Caught(thrown)
                    THEN /\ lastOp' = Op("finish_trace:threw", t, tr.trace_id, 0, TRUE,
                                         <<thrown>>, 0)
                         /\ UNCHANGED <<active_traces_, finished_traces_, traceSink>>
                    ELSE FinishMove(t, tr, IF thrown = NoThrow THEN exported ELSE <<>>)
    /\ UNCHANGED <<now, context_, instance_, processor_, max_finished_traces_, genCount,
                   spanVars, spanSink, finishHist, scopeVars, compVars, cacheVars, guardVars,
                   sessionVars>>

NextSink ==
    \/ \E t \in Flows : \E id \in 1..NumTraceIds : create_trace(t, id)
    \/ \E t \in Flows : \E id \in 1..NumTraceIds : finish_trace(t, id)
    \/ \E t \in Flows : \E behaviour \in {NoThrow} \cup ExceptionTypes :
          finish_trace_export_sink(t, behaviour)

SpecSink == Init /\ [][NextSink]_vars

\* ---- SessionManager (memory/session.h, memory/session.cpp) ----

\* The null shared_ptr<Session>; Session objects are numbered as they are made.
NoObject == 0

ManagedIds == {1, 2}

\* SessionManager::get_session(session_id), under the shared lock.
get_session(sessions, session_id) ==
    IF session_id \in DOMAIN sessions THEN sessions[session_id] ELSE NoObject

\* get_or_create_session(session_id) up to the return of get_session: the call
\* ends there when a session was found, else it goes on to create_session.
\* The call is entered in received with the object it returned (NoObject
\* while it runs).
get_or_create_session(t, session_id) ==
    /\ Idle(t)
    /\ Len(received[t]) < MaxSessionCalls
    /\ LET session == get_session(sessions_, session_id)
       IN /\ received' = [received EXCEPT ![t] =
                             Append(@, [session_id |-> session_id, session |-> session])]
          /\ pc' = [pc EXCEPT ![t] = IF session # NoObject THEN "idle"
                                     ELSE "get_or_create_session:create_session"]
          /\ lastOp' = Op("get_or_create_session:get_session", t, session_id, 0,
                          session # NoObject, <<session>>, 0)
    /\ UNCHANGED <<now, callTrace, holds, context_, regVars, genCount, spanVars, sinkVars,
                   finishHist, scopeVars, compVars, cacheVars, guardVars, sessions_,
                   sessionsMade>>

\* The rest of get_or_create_session: create_session(session_id), under the
\* unique lock, makes a Session and assigns it to sessions_[session_id].
get_or_create_session_create(t) ==
    /\ pc[t] = "get_or_create_session:create_session"
    /\ LET call == received[t][Len(received[t])]
           session == sessionsMade + 1
       IN /\ sessionsMade' = session
          /\ sessions_' = With(sessions_, call.session_id, session)
          /\ received' = [received EXCEPT ![t][Len(received[t])].session = session]
          /\ lastOp' = Op("get_or_create_session", t, call.session_id, 0, FALSE,
                          <<session>>, 0)
    /\ pc' = [pc EXCEPT ![t] = "idle"]
    /\ UNCHANGED <<now, callTrace, holds, context_, regVars, genCount, spanVars, sinkVars,
                   finishHist, scopeVars, compVars, cacheVars, guardVars>>

\* SessionManager::get_session_count()
get_session_count == Cardinality(DOMAIN sessions_)

\* One SessionManager with no session yet, used by two threads.
InitManager ==
    /\ now = 1
    /\ pc = [t \in Threads |-> "idle"]
    /\ callTrace = [t \in Threads |-> <<>>]
    /\ holds = [t \in Threads |-> {}]
    /\ context_ = [t \in Threads |-> EmptyContext]
    /\ instance_ = FALSE
    /\ active_traces_ = <<>>
    /\ finished_traces_ = <<>>
    /\ processor_ = NoProcessor
    /\ max_finished_traces_ = DefaultMaxFinishedTraces
    /\ genCount = 0
    /\ spanCount = 0
    /\ spans = <<>>
    /\ default_processor_ = NoProcessor
    /\ traceSink = [p \in Processors |-> <<>>]
    /\ spanSink = [p \in Processors |-> <<>>]
    /\ finishHist = <<>>
    /\ scopes = [t \in Threads |-> <<>>]
    /\ snapshots = [t \in Threads |-> <<>>]
    /\ traceGuards = [t \in Threads |-> <<>>]
    /\ sessions_ = <<>>
    /\ sessionsMade = 0
    /\ received = [t \in Threads |-> <<>>]
    /\ cache_ = <<>>
    /\ access_times_ = <<>>
    /\ max_size_ = DefaultCacheSize
    /\ ttl_ = DefaultTtl
    /\ hits_ = 0
    /\ misses_ = 0
    /\ processors_ = <<>>
    /\ subReceived = <<>>
    /\ callCount = 0
    /\ subShutdowns = [p \in DOMAIN subReceived |-> 0]
    /\ wrapped = [w \in Wrappers |-> Untouched]
    /\ filters_ = <<>>
    /\ shutdown_handler_ = FALSE
    /\ lastOp = Op("init", 0, None, 0, FALSE, <<>>, 0)

NextManager ==
    \/ \E t \in Threads : \E session_id \in ManagedIds : get_or_create_session(t, session_id)
    \/ \E t \in Threads : get_or_create_session_create(t)

SpecManager == InitManager /\ [][NextManager]_vars

\* ---- Claims about the registry (checked under Spec) ----

LastN(seq, n) == SubSeq(seq, (Len(seq) - n) + 1, Len(seq))

InFinishTrace(t) == pc[t] \in {"finish_trace:export_trace", "finish_trace:blocked"}

\* The finish_trace calls that found an active trace and have returned.
CompletedFinishes ==
    IF \E t \in Flows : InFinishTrace(t)
    THEN SubSeq(finishHist, 1, Len(finishHist) - 1)
    ELSE finishHist

\* C3: with max_finished_traces = N, get_finished_trace_ids() is exactly the
\* last min(k, N) ids of the finish_trace calls that found an active trace, in
\* finish order (k = number of such calls that returned): never more than N,
\* oldest evicted first.
C3_FinishedIsLastFinished ==
    /\ Len(finished_traces_) <= max_finished_traces_
    /\ get_finished_trace_ids =
         LastN(CompletedFinishes, Min(Len(CompletedFinishes), max_finished_traces_))

\* C3 witness: cap 2, three traces finished in the order 1, 2, 101: the first is evicted.
C3_Witness ==
    /\ max_finished_traces_ = 2
    /\ CompletedFinishes = <<1, 2, GenBase + 1>>
    /\ get_finished_trace_ids = <<2, GenBase + 1>>

\* C4: a finish_trace(id) that found the trace active leaves id inactive, the
\* finished trace (is_finished, ended_at set) last in the finished list when the
\* cap is at least 1, and exactly one more process_trace record for id at the
\* default processor; a finish_trace(id) that finds no active trace changes
\* neither the active set, nor the finished list, nor what the processor received.
C4_FinishTraceStep ==
    /\ (lastOp'.op = "finish_trace" /\ lastOp'.found) =>
          /\ lastOp'.trace \notin DOMAIN active_traces_'
          /\ max_finished_traces_ >= 1 =>
                /\ finished_traces_' # <<>>
                /\ LET tr == finished_traces_'[Len(finished_traces_')]
                   IN tr.trace_id = lastOp'.trace /\ tr.is_finished_ /\ tr.ended_at_ # None
          /\ processor_ # NoProcessor =>
                /\ Len(traceSink'[processor_]) = Len(traceSink[processor_]) + 1
                /\ traceSink'[processor_][Len(traceSink'[processor_])].trace_id = lastOp'.trace
    /\ (lastOp'.op = "finish_trace" /\ ~lastOp'.found) =>
          UNCHANGED <<active_traces_, finished_traces_, traceSink>>

C4_FinishTraceMovesOnce == [][C4_FinishTraceStep]_vars

\* C10: export_trace always returns a record: no flow is ever stuck inside it
\* (nor inside a finish_trace that calls it), no flow comes to get_stats' lock
\* of spans_mutex_ while holding spans_mutex_, and every export_trace that
\* returned yielded a record.
C10_ExportTraceReturns ==
    /\ \A t \in Flows : pc[t] \notin {"export_trace:blocked", "finish_trace:blocked"}
    /\ \A t \in Flows : pc[t] \in {"export_trace:get_stats", "finish_trace:export_trace"}
                           => "spans_mutex_" \notin holds[t]
    /\ lastOp.op = "export_trace" => lastOp.result # <<>>

\* ---- Claims about spans and the factory (checked under SpecSpan) ----

\* The step is span.finish() on held span i.
IsFinishOf(i) ==
    /\ lastOp'.op = "finish" /\ lastOp'.span = i
    /\ i \in DOMAIN spans /\ i \in DOMAIN spans'
    /\ spans'[i].finishes = spans[i].finishes + 1

\* C1: finish() on a real span that was already finished leaves its ended_at,
\* its error and the number of records its processor received from it unchanged.
C1_SecondFinishStep ==
    \A i \in DOMAIN spans :
        (IsFinishOf(i) /\ spans[i].kind = "real" /\ spans[i].finishes >= 1) =>
            /\ spans'[i].ended_at_ = spans[i].ended_at_
            /\ spans'[i].error_ = spans[i].error_
            /\ \A p \in Processors : spanSink'[p][i] = spanSink[p][i]

C1_FinishIdempotent == [][C1_SecondFinishStep]_vars

\* C2: right after finish() of a span the factory registered into an active
\* trace, the record the trace stores for that span has the span's started_at,
\* ended_at and error.
C2_TraceRecordIsFinal ==
    \A i \in DOMAIN spans : \A id \in DOMAIN active_traces_ :
        \A k \in 1..Len(active_traces_[id].spans_) :
            (/\ lastOp.op = "finish" /\ lastOp.span = i
             /\ spans[i].kind = "real" /\ spans[i].trace_id_ = id
             /\ active_traces_[id].spans_[k].span_id = spans[i].span_id_) =>
                /\ active_traces_[id].spans_[k].started_at = spans[i].started_at_
                /\ active_traces_[id].spans_[k].ended_at = spans[i].ended_at_
                /\ active_traces_[id].spans_[k].error = spans[i].error_

\* C6: a span the factory made while the caller's context was disabled is the
\* NoOp variant, its export_span() is absent, and no processor has received a
\* process_span call from it.
C6_DisabledSpanIsNoOp ==
    \A i \in DOMAIN spans :
        spans[i].madeDisabled =>
            /\ spans[i].kind = "noop"
            /\ export_span(spans[i]) = <<>>
            /\ \A p \in Processors : spanSink[p][i] = 0

\* C6 witness: a span made while disabled, by a factory with a default
\* processor, has been marked current and finished.
C6_Witness ==
    \E i \in DOMAIN spans :
        /\ spans[i].madeDisabled /\ spans[i].finishes >= 1 /\ spans[i].is_current_
        /\ default_processor_ # NoProcessor
        /\ lastOp.op = "finish"

\* C7: creating a span while the caller's context is disabled creates or
\* registers no trace in the global registry and leaves current_trace_id as it was.
C7_DisabledCreateStep ==
    (/\ lastOp'.op = "create_span" /\ spanCount' = spanCount + 1
     /\ is_trace_disabled(context_[lastOp'.flow])) =>
        /\ UNCHANGED <<active_traces_, finished_traces_>>
        /\ get_current_trace_id(context_'[lastOp'.flow])
             = get_current_trace_id(context_[lastOp'.flow])

C7_DisabledCreateTouchesNoTrace == [][C7_DisabledCreateStep]_vars

\* ---- Claim about the end-to-end run (checked under SpecE2E) ----

SpanIds(ss) == [k \in 1..Len(ss) |-> ss[k].span_id]

\* C9: with trace 1 created, Agent span A (no parent) and Function span F
\* (parent A) made by the factory in trace 1 and both finished, export_trace of
\* trace 1 returns a record with exactly 2 spans, the root spans are [A], the
\* children of A are [F], total_spans is 2 and error_spans is 0.
C9_EndToEnd ==
    /\ \A t \in Flows : pc[t] # "export_trace:blocked"
    /\ (lastOp.op = "export_trace" /\ lastOp.trace = 1 /\ BothFinished) =>
          /\ lastOp.result # <<>>
          /\ Len(lastOp.result[1].spans) = 2
          /\ SpanIds(get_root_spans(active_traces_[1])) = <<get_span_id(spans[1])>>
          /\ SpanIds(get_child_spans(active_traces_[1], get_span_id(spans[1])))
               = <<get_span_id(spans[2])>>
          /\ lastOp.result[1].stats.total_spans = 2
          /\ lastOp.result[1].stats.error_spans = 0

\* ---- Claim about scoped guards (checked under SpecScope) ----

\* C5: each guard destroyed, at a normal scope end or while an exception
\* unwinds nested scopes innermost first, leaves the (current_trace_id,
\* current_span_id, disabled) triple that held when it was constructed, and the
\* caller's context after the exit is the triple of the outermost guard destroyed.
C5_GuardRestoresTriple ==
    lastOp.op \in {"scope_end", "scope_unwind"} =>
        /\ \A k \in 1..Len(lastOp.result) :
              lastOp.result[k].restored = lastOp.result[k].entered
        /\ Triple(context_[lastOp.flow]) = lastOp.result[Len(lastOp.result)].entered

\* C5 witness: an exception unwound two nested guards; the outer one was made
\* in the empty context, the inner one with current trace 1, and the trace id
\* had been removed inside the inner scope.
C5_Witness ==
    /\ lastOp.op = "scope_unwind" /\ Len(lastOp.result) = 2
    /\ lastOp.result[1].entered[1] = 1
    /\ lastOp.result[1].before[1] = None
    /\ lastOp.result[2].entered = Triple(EmptyContext)
    /\ Triple(context_[lastOp.flow]) = Triple(EmptyContext)

\* ---- Claim about the CompositeProcessor (checked under SpecComposite) ----

\* C8: every process_span / process_trace call on the composite is made on
\* each sub-processor exactly once, in registration order, also when some of
\* them throw, and no exception leaves the composite's call.
C8_CompositeIsolatesFailures ==
    lastOp.op \in CallKinds =>
        /\ lastOp.result[1].delivered = processors_
        /\ ~lastOp.result[1].propagated
        /\ \A p \in DOMAIN subReceived :
              Cardinality({k \in 1..Len(subReceived[p]) :
                              subReceived[p][k].no = lastOp.trace}) = 1

\* ---- Claim about the per-thread context (checked under SpecThreads) ----

\* C11: a context call, a span start/finish or a guard entered or left by one
\* thread leaves what every other thread reads from get_current_trace_id,
\* get_current_span_id and is_trace_disabled unchanged.
C11_OtherThreadsStep ==
    \A u \in DOMAIN context_ :
        u # lastOp'.flow => Triple(context_'[u]) = Triple(context_[u])

C11_ContextIsPerThread == [][C11_OtherThreadsStep]_vars

\* C11 witness: thread 2 has just disabled tracing while thread 1 holds a
\* span marked current; thread 1 still reads its span and trace and is not
\* disabled, thread 2 reads no trace and no span.
C11_Witness ==
    /\ lastOp.op = "disable_tracing" /\ lastOp.flow = 2
    /\ Triple(context_[1]) = <<1, 1, FALSE>>
    /\ Triple(context_[2]) = <<None, None, TRUE>>
    /\ \E i \in DOMAIN spans : spans[i].is_current_

\* ---- Claim about the shared registry (checked under SpecShared) ----

\* C12: the registry's active map, finished list and processor reference are
\* only read or written under traces_mutex_; so while one thread holds
\* traces_mutex_, no step of another thread changes any of them, and no
\* thread is ever lost to an unsynchronised access.
C12_RegistryStep ==
    /\ \A u \in DOMAIN holds :
          ("traces_mutex_" \in holds[u] /\ lastOp'.flow # u) =>
              UNCHANGED <<active_traces_, finished_traces_, processor_>>
    /\ \A u \in DOMAIN pc : pc'[u] # "crashed"

C12_RegistryUnderMutex == [][C12_RegistryStep]_vars

\* ---- Claim about Trace.started_at (checked under SpecE2E) ----

\* C13: a trace that has received no span has no started_at, the add_span
\* that stores its first span sets started_at (to the time of that call), and
\* started_at of a trace that holds a span never changes afterwards.
C13_StartedAtStep ==
    /\ \A id \in DOMAIN active_traces_' :
          active_traces_'[id].spans_ = <<>> => active_traces_'[id].started_at_ = None
    /\ \A id \in DOMAIN active_traces_ \cap DOMAIN active_traces_' :
          /\ (active_traces_[id].spans_ = <<>> /\ active_traces_'[id].spans_ # <<>>) =>
                active_traces_'[id].started_at_ = current_time_iso
          /\ active_traces_[id].spans_ # <<>> =>
                active_traces_'[id].started_at_ = active_traces_[id].started_at_

C13_StartedAtOnFirstSpan == [][C13_StartedAtStep]_vars

\* ---- Claims about a trace's spans (checked under SpecTrace) ----

\* The stored spans at the positions in I, in insertion order.
Picked(ss, I) ==
    [k \in 1..Cardinality(I) |-> ss[CHOOSE i \in I : Cardinality({j \in I : j < i}) = k - 1]]

\* C14: get_root_spans() is exactly the stored spans with no parent_id and
\* get_child_spans(p) exactly the stored spans whose parent_id is p, each once
\* and in insertion order.
C14_RootAndChildSpans ==
    /\ lastOp.op = "get_root_spans" =>
          LET ss == active_traces_[lastOp.trace].spans_
          IN lastOp.result = Picked(ss, {i \in 1..Len(ss) : ss[i].parent_id = None})
    /\ lastOp.op = "get_child_spans" =>
          LET ss == active_traces_[lastOp.trace].spans_
          IN lastOp.result = Picked(ss, {i \in 1..Len(ss) : ss[i].parent_id = lastOp.span})

\* C14 witness: of three stored spans (root, child of 1, root) get_root_spans
\* returned the first and the third.
C14_Witness ==
    /\ lastOp.op = "get_root_spans"
    /\ SpanIds(active_traces_[lastOp.trace].spans_) = <<1, 2, 3>>
    /\ active_traces_[lastOp.trace].spans_[2].parent_id = 1
    /\ SpanIds(lastOp.result) = <<1, 3>>

\* C18: add_span_to_trace for a trace id that is not active returns without
\* storing anything: the active set, the finished list and the spans of every
\* trace (a finished trace of that id included) stay as they were.
C18_IgnoredAddStep ==
    (lastOp'.op = "add_span_to_trace" /\ lastOp'.trace \notin DOMAIN active_traces_) =>
        /\ ~lastOp'.found
        /\ UNCHANGED <<active_traces_, finished_traces_>>

C15_ErrorStep ==
    \A i \in DOMAIN spans :
        /\ (lastOp'.op = "set_error" /\ lastOp'.span = i) => spans'[i].error_ = lastOp'.result
        /\ (lastOp'.op = "finish" /\ lastOp'.span = i /\ lastOp'.result # <<>>) =>
              LET exported == lastOp'.result[1].error
                  error == spans'[i].error_
              IN /\ error = spans[i].error_
                 /\ (error = <<>>) = (exported = <<>>)
                 /\ error # <<>> =>
                       /\ exported[1].message = error[1].message
                       /\ (error[1].data = <<>>) = (exported[1].data = <<>>)
                       /\ error[1].data # <<>> =>
                             \A key \in DOMAIN error[1].data[1] :
                                 exported[1].data[1][key] = error[1].data[1][key].value

C15_ExportCarriesLastError == [][C15_ErrorStep]_vars


\* ---- Claims about the factory's resolution (checked under SpecFactory) ----

\* The options and the context a create_span step resolved from.
CreatedReal == lastOp'.op = "create_span" /\ spans'[lastOp'.span].kind = "real"
CreateOptions == lastOp'.result[1]

\* C16 as stated: a real span's trace_id is the option if given, else the
\* current trace id if set, else the id of a trace started by this call; its
\* parent id is the option if given, else the current span id, else absent.
C16_ResolveStep ==
    CreatedReal =>
        LET span == spans'[lastOp'.span]
            c == context_[lastOp'.flow]
        IN /\ get_trace_id(span) =
                 IF CreateOptions.trace_id # None THEN CreateOptions.trace_id
                 ELSE IF get_current_trace_id(c) # None THEN get_current_trace_id(c)
                 ELSE get_trace_id(span)
           /\ (CreateOptions.trace_id = None /\ get_current_trace_id(c) = None) =>
                 /\ get_trace_id(span) \notin DOMAIN active_traces_
                 /\ get_trace_id(span) \in DOMAIN active_traces_'
           /\ get_parent_id(span) =
                 IF CreateOptions.parent_span_id # None THEN CreateOptions.parent_span_id
                 ELSE get_current_span_id(c)
C16_ResolutionOrder == [][C16_ResolveStep]_vars

\* C16 amended: as stated, except that the last fallback starts a trace only
\* when the global manager is initialized; without a manager the span reports a
\* freshly generated id that names no trace.
C16_AmendedStep ==
    CreatedReal =>
        LET span == spans'[lastOp'.span]
            c == context_[lastOp'.flow]
        IN /\ get_trace_id(span) =
                 IF CreateOptions.trace_id # None THEN CreateOptions.trace_id
                 ELSE IF get_current_trace_id(c) # None THEN get_current_trace_id(c)
                 ELSE get_trace_id(span)
           /\ (CreateOptions.trace_id = None /\ get_current_trace_id(c) = None) =>
                 /\ get_trace_id(span) \notin DOMAIN active_traces_
                 /\ instance_ => /\ get_trace_id(span) \in DOMAIN active_traces_'
                                 /\ get_current_trace_id(context_'[lastOp'.flow]) = get_trace_id(span)
                 /\ ~instance_ => /\ active_traces_' = active_traces_
                                  /\ get_current_trace_id(context_'[lastOp'.flow]) = None
           /\ get_parent_id(span) =
                 IF CreateOptions.parent_span_id # None THEN CreateOptions.parent_span_id
                 ELSE get_current_span_id(c)
C16_ResolutionOrderAmended == [][C16_AmendedStep]_vars

\* A real span was created with an explicit trace id while the context named
\* another trace, and took its parent from the context.
C16_Witness ==
    /\ lastOp.op = "create_span" /\ lastOp.span \in DOMAIN spans
    /\ spans[lastOp.span].kind = "real"
    /\ lastOp.result[1].trace_id = 1 /\ get_trace_id(spans[lastOp.span]) = 1
    /\ get_current_trace_id(context_[lastOp.flow]) = 2
    /\ lastOp.result[1].parent_span_id = None
    /\ get_parent_id(spans[lastOp.span]) \in CurrentSpanIds

\* C17: with neither options.processor nor a factory default, the created real
\* span holds a processor (a NoOpProcessor), not an absent one.
C17_FallbackStep ==
    (CreatedReal /\ CreateOptions.processor = NoProcessor /\ default_processor_ = NoProcessor) =>
        spans'[lastOp'.span].processor_ # NoProcessor
C17_ProcessorFallback == [][C17_FallbackStep]_vars


\* ---- Claims about the wrapping processors (checked under SpecWrappers) ----

\* C19: over any number of shutdown() calls on a Composite, Filtered, Async or
\* Function processor, each underlying sub-processor's shutdown() and the
\* shutdown handler run at most once.
C19_ShutdownIdempotent ==
    /\ \A p \in DOMAIN subShutdowns : subShutdowns[p] <= 1
    /\ \A w \in Wrappers : wrapped[w].shutdowns <= 1

\* C20: AsyncProcessor::process_span / process_trace return without the wrapped
\* processor's process_span / process_trace having run inside the call.
C20_AsyncStep ==
    lastOp'.op \in {"async_process_span", "async_process_trace"} =>
        wrapped'["AsyncProcessor"].received = wrapped["AsyncProcessor"].received
C20_AsyncReturnsAfterEnqueue == [][C20_AsyncStep]_vars


\* ---- Claim about the FilteredProcessor (checked under SpecFiltered) ----

BatchKinds == {"process_spans_batch", "process_traces_batch"}
AcceptedByAll(record) == \A k \in 1..Len(filters_) : record \in filters_[k]

\* C21: a batch call on the FilteredProcessor makes one batch call of the same
\* kind on the wrapped processor, carrying exactly the records every filter
\* accepts, in their original order, and makes no call when there is none.
C21_BatchStep ==
    \A kind \in BatchKinds :
        lastOp'.op = "filtered_" \o kind =>
            LET batch == lastOp'.result[1]
                accepted == SelectSeq(batch, AcceptedByAll)
                before == wrapped["FilteredProcessor"].received
                after == wrapped'["FilteredProcessor"].received
            IN IF accepted = <<>>
               THEN after = before
               ELSE /\ Len(after) = Len(before) + 1
                    /\ SubSeq(after, 1, Len(before)) = before
                    /\ after[Len(after)].kind = kind
                    /\ after[Len(after)].data = accepted
C21_BatchPreFilters == [][C21_BatchStep]_vars

\* A batch of two records went through two filters: one record was dropped
\* and the other forwarded.
C21_Witness ==
    /\ lastOp.op = "filtered_process_spans_batch"
    /\ Len(filters_) = 2 /\ Len(lastOp.result[1]) = 2
    /\ Len(wrapped["FilteredProcessor"].received) = 1
    /\ Len(wrapped["FilteredProcessor"].received[1].data) = 1
    /\ \E k \in 1..2 : ~AcceptedByAll(lastOp.result[1][k])


\* C22: CompositeProcessor::flush and shutdown call flush / shutdown on every
\* sub-processor in registration order, also when an earlier one throws, and
\* no exception leaves the call.
C22_FlushShutdownBestEffort ==
    lastOp.op \in {"flush", "composite_shutdown"} =>
        /\ lastOp.result[1].delivered = processors_
        /\ ~lastOp.result[1].propagated


\* ---- Claim about Trace::finish (checked under SpecTraceFinish) ----

\* C23: the first finish() of a trace stamps ended_at and sets is_finished; a
\* later finish() leaves ended_at as it was; no step takes a trace's
\* is_finished back to false, and every trace in the finished list is finished.
C23_TraceFinishStep ==
    /\ lastOp'.op = "trace_finish" =>
          LET before == active_traces_[lastOp'.trace]
              after == active_traces_'[lastOp'.trace]
          IN /\ after.is_finished_
             /\ after.ended_at_ = IF before.is_finished_ THEN before.ended_at_ ELSE now
             /\ after.ended_at_ # None
    /\ lastOp'.op # "create_trace" =>
          \A id \in DOMAIN active_traces_ \cap DOMAIN active_traces_' :
              active_traces_[id].is_finished_ => active_traces_'[id].is_finished_
    /\ \A k \in 1..Len(finished_traces_') : finished_traces_'[k].is_finished_
C23_TraceFinishIdempotent == [][C23_TraceFinishStep]_vars

\* finish() was called on a trace that had been finished at an earlier time.
C23_Witness ==
    /\ lastOp.op = "trace_finish"
    /\ active_traces_[lastOp.trace].is_finished_
    /\ active_traces_[lastOp.trace].ended_at_ # None
    /\ active_traces_[lastOp.trace].ended_at_ < now


\* ---- Claim about the order of a trace's spans (checked under SpecWriters) ----

\* The span ids of a list of stored or exported span records, in list order.
IdsOf(ss) == [k \in 1..Len(ss) |-> ss[k].span_id]

\* C24: the k-th add_span applied to a trace (whose span carries id k) is
\* the k-th entry of get_spans() and of the spans array of export_trace,
\* whichever threads made the calls.
C24_SpansKeepInsertionOrder ==
    /\ \A id \in DOMAIN active_traces_ :
          IdsOf(get_spans(active_traces_[id])) = [k \in 1..Len(active_traces_[id].spans_) |-> k]
    /\ lastOp.op = "get_spans" =>
          /\ lastOp.result = active_traces_[lastOp.trace].spans_
          /\ IdsOf(lastOp.result) = [k \in 1..Len(lastOp.result) |-> k]
    /\ (lastOp.op = "export_trace" /\ lastOp.result # <<>>) =>
          /\ IdsOf(lastOp.result[1].spans) = IdsOf(active_traces_[lastOp.trace].spans_)
          /\ IdsOf(lastOp.result[1].spans) = [k \in 1..Len(lastOp.result[1].spans) |-> k]

\* Both threads added spans to the trace (a root span by thread 1, a child
\* span by thread 2) and its export lists three of them.
C24_Witness ==
    /\ lastOp.op = "export_trace" /\ lastOp.result # <<>>
    /\ Len(lastOp.result[1].spans) = 3
    /\ \E k \in 1..3 : lastOp.result[1].spans[k].parent_id = None
    /\ \E k \in 1..3 : lastOp.result[1].spans[k].parent_id = 1


\* ---- Claim about Trace::get_stats (checked under SpecStats) ----

\* The sum of the counts of a per-type count map.
RECURSIVE SumCounts(_)
SumCounts(counts) ==
    IF DOMAIN counts = {} THEN 0
    ELSE LET ty == CHOOSE x \in DOMAIN counts : TRUE
         IN counts[ty] + SumCounts([x \in DOMAIN counts \ {ty} |-> counts[x]])

\* C25: get_stats reports the number of stored spans, the number of stored
\* spans with an error, per-type counts that count each stored span under its
\* own type (and so sum to the total), and a duration exactly when started_at
\* and ended_at are both set.
C25_StatsFromStoredRecords ==
    lastOp.op = "get_stats" =>
        LET tr == active_traces_[lastOp.trace]
            stored == tr.spans_
            stats == lastOp.result[1]
        IN /\ stats.total_spans = Len(stored)
           /\ stats.error_spans = Cardinality({k \in 1..Len(stored) : stored[k].error # <<>>})
           /\ DOMAIN stats.span_types = {stored[k].type : k \in 1..Len(stored)}
           /\ \A ty \in DOMAIN stats.span_types :
                 stats.span_types[ty] = Cardinality({k \in 1..Len(stored) : stored[k].type = ty})
           /\ SumCounts(stats.span_types) = stats.total_spans
           /\ (stats.duration # None) = (tr.started_at_ # None /\ tr.ended_at_ # None)

\* get_stats was called on a finished trace holding spans of two types, one
\* with an error and one without.
C25_Witness ==
    /\ lastOp.op = "get_stats"
    /\ lastOp.result[1].total_spans = 3
    /\ lastOp.result[1].error_spans = 1
    /\ DOMAIN lastOp.result[1].span_types = StatsSpanTypes
    /\ lastOp.result[1].duration # None


\* ---- Claim about the current-trace bindings (checked under SpecCurrent) ----

\* The effect of a finish_current_trace that ran to its end on the trace that
\* was current when it was called.
C26_BindingStep ==
    /\ lastOp'.op = "start_current_trace" =>
          /\ lastOp'.result[1] \in DOMAIN active_traces_'
          /\ get_current_trace_id(context_'[lastOp'.flow]) = lastOp'.result[1]
    /\ (lastOp'.op = "finish_trace" /\ pc[lastOp'.flow] = "finish_current_trace:export_trace") =>
          /\ lastOp'.trace = get_current_trace_id(context_[lastOp'.flow])
          /\ DOMAIN active_traces_' = DOMAIN active_traces_ \ {lastOp'.trace}
          /\ get_current_trace_id(context_'[lastOp'.flow]) = None
    /\ (lastOp'.op = "finish_trace" /\ pc[lastOp'.flow] = "idle") =>
          /\ lastOp'.trace = get_current_trace_id(context_[lastOp'.flow])
          /\ DOMAIN active_traces_' = DOMAIN active_traces_ \ {lastOp'.trace}
          /\ get_current_trace_id(context_'[lastOp'.flow]) = None
    /\ (lastOp'.op = "finish_current_trace" /\ lastOp'.trace = None) =>
          UNCHANGED <<context_, active_traces_, finished_traces_, traceSink>>

\* C26: start_current_trace returns an active trace's id that is the flow's
\* current_trace_id; finish_current_trace finishes exactly the current trace
\* and clears current_trace_id (it runs to its end); with no current trace id
\* it changes nothing.
C26_CurrentTraceBindings ==
    /\ [][C26_BindingStep]_vars
    /\ [](\A t \in Flows : pc[t] # "finish_current_trace:blocked")

\* The part of C26 that holds whenever finish_current_trace returns.
C26_WhenItReturns == [][C26_BindingStep]_vars


\* ---- Claim about the global trace manager (checked under SpecGlobal) ----

\* C27: is_initialized() is false at first, true after initialize(), false
\* after shutdown(), and no other call (instance() included) changes it; the
\* factory registers a span only while it is true.
C27_LifeStep ==
    /\ lastOp'.op = "initialize" => is_initialized'
    /\ lastOp'.op = "shutdown" => ~is_initialized'
    /\ lastOp'.op \notin {"initialize", "shutdown"} => is_initialized' = is_initialized
    /\ lastOp'.op = "is_initialized" => lastOp'.found = is_initialized
    /\ (lastOp'.op = "create_span" /\ lastOp'.found) => is_initialized
C27_ExplicitInitialization == [][C27_LifeStep]_vars


\* ---- Claim about snapshot and restore (checked under SpecSnapshot) ----

\* C28: right after guard = restore_from_snapshot(s), the triple
\* (current_trace_id, current_span_id, disabled) is the one that held when s
\* was taken, whatever the context was before, and get_context_snapshot()
\* returns s again.
C28_RestoreStep ==
    lastOp'.op = "restore_from_snapshot" =>
        LET t == lastOp'.flow
        IN /\ Triple(context_'[t]) = snapshots[t][1].taken
           /\ get_context_snapshot(context_'[t]) = snapshots[t][1].snapshot
C28_SnapshotRoundTrip == [][C28_RestoreStep]_vars

\* A snapshot with a trace id and the disabled flag was restored over a
\* context that differed from it in all three parts.
C28_Witness ==
    /\ lastOp.op = "restore_from_snapshot"
    /\ snapshots[lastOp.flow] # <<>>
    /\ snapshots[lastOp.flow][1].taken = <<1, None, TRUE>>
    /\ scopes[lastOp.flow] # <<>>
    /\ scopes[lastOp.flow][1].entered = <<2, 1, FALSE>>


\* ---- Claim about the SessionCache (checked under SpecCache) ----

\* The entry of id is in the cache and its last access is at most ttl ago.
Live(cache, times, id) == id \in DOMAIN cache /\ id \in DOMAIN times /\ (now - times[id]) <= ttl_

\* C29: put(id, s) stores s under id, where get(id) finds it; get returns the
\* stored session of a live entry and null otherwise; a stored session changes
\* only by a put of its own id, and an entry disappears only by remove, clear,
\* cleanup_expired or the eviction of a later put; a key never put is not in
\* the cache.
C29_CacheStep ==
    /\ lastOp'.op = "cache_put" =>
          /\ Live(cache_', access_times_', lastOp'.trace)
          /\ cache_'[lastOp'.trace] = lastOp'.result[1]
          /\ \A id \in DOMAIN cache_' \ {lastOp'.trace} :
                id \in DOMAIN cache_ /\ cache_'[id] = cache_[id]
          /\ Cardinality(DOMAIN cache_ \ DOMAIN cache_') <= 1
    /\ lastOp'.op = "cache_get" =>
          /\ lastOp'.result[1] = IF Live(cache_, access_times_, lastOp'.trace)
                                 THEN cache_[lastOp'.trace] ELSE NoSession
          /\ cache_' = cache_
    /\ lastOp'.op \in {"cache_remove", "cache_clear", "cache_cleanup_expired"} =>
          \A id \in DOMAIN cache_' : id \in DOMAIN cache_ /\ cache_'[id] = cache_[id]
    /\ lastOp'.op = "tick" => cache_' = cache_ /\ access_times_' = access_times_
C29_CacheReturnsStored == [][C29_CacheStep]_vars

\* A get returned the session stored under its id from a cache that is full.
C29_Witness ==
    /\ lastOp.op = "cache_get"
    /\ lastOp.result[1] = "s2"
    /\ max_size_ = 2
    /\ DOMAIN cache_ = {1, 3}
    /\ lastOp.trace = 1


\* ---- Claim about nested current spans (checked under SpecNested) ----

\* C30: when the outer span and then the inner span were started as current,
\* the first finish of the inner span leaves current_span_id and
\* current_trace_id at the outer span's ids (the values before the inner
\* span's start); the finish of an outermost current span leaves them absent.
C30_PopStep ==
    /\ (/\ lastOp'.op = "finish" /\ lastOp'.span = 2
        /\ spans[2].is_current_ /\ spans[2].finishes = 0
        /\ spans[1].is_current_ /\ spans[1].finishes = 0) =>
          /\ get_current_span_id(context_'[lastOp'.flow]) = get_span_id(spans[1])
          /\ get_current_trace_id(context_'[lastOp'.flow]) = get_trace_id(spans[1])
    /\ (/\ lastOp'.op = "finish" /\ lastOp'.span = 1
        /\ spans[1].is_current_ /\ spans[1].finishes = 0) =>
          /\ get_current_span_id(context_'[lastOp'.flow]) = None
          /\ get_current_trace_id(context_'[lastOp'.flow]) = None
C30_FinishPopsContext == [][C30_PopStep]_vars

\* ---- Claims about the TraceGuard (checked under SpecGuard) ----

\* C31: when TraceGuard(trace_id?) has been constructed, the calling flow's
\* current trace id is the guard's trace id and the disabled flag has the
\* value it had before the construction.
C31_GuardStep ==
    \A t \in DOMAIN traceGuards :
       Len(traceGuards'[t]) > Len(traceGuards[t]) =>
          LET g == traceGuards'[t][Len(traceGuards'[t])]
          IN /\ get_current_trace_id(context_'[t]) = g.trace_id_
             /\ is_trace_disabled(context_'[t]) = is_trace_disabled(context_[t])

C31_GuardBindsTrace == [][C31_GuardStep]_vars

\* C32: when a TraceGuard has been destroyed, the calling flow's
\* (current_trace_id, current_span_id, disabled) triple is the triple that
\* held before the guard was constructed.
C32_DestroyStep ==
    \A t \in DOMAIN traceGuards :
       Len(traceGuards'[t]) < Len(traceGuards[t]) =>
          Triple(context_'[t]) = traceGuards[t][Len(traceGuards[t])].entered

C32_GuardRestoresTriple == [][C32_DestroyStep]_vars

\* ---- Claim about the span lifecycle (checked under SpecLifecycle) ----

\* C33: started_at is absent until start() and ended_at is absent until
\* finish(); and once a span has been finished, no later start() or finish()
\* on it changes started_at or ended_at or touches the ambient context.
C33_LifecycleStep ==
    \A i \in DOMAIN spans :
       /\ (get_started_at(spans[i]) = None /\ get_started_at(spans'[i]) # None) =>
             (lastOp'.op = "start" /\ lastOp'.span = i)
       /\ (get_ended_at(spans[i]) = None /\ get_ended_at(spans'[i]) # None) =>
             (lastOp'.op = "finish" /\ lastOp'.span = i)
       /\ (spans[i].finishes > 0 /\ lastOp'.op \in {"start", "finish"} /\ lastOp'.span = i) =>
             /\ get_started_at(spans'[i]) = get_started_at(spans[i])
             /\ get_ended_at(spans'[i]) = get_ended_at(spans[i])
             /\ context_' = context_

C33_FinishedIsTerminal == [][C33_LifecycleStep]_vars

\* C34: finish(reset_current = false) leaves the ambient context untouched:
\* the calling flow's current trace id and current span id are the same after
\* the call as before it, also for a span started with mark_as_current = true.
C34_FinishStep ==
    \A t \in Flows : \A i \in DOMAIN spans :
       span_finish(t, i, FALSE) =>
          /\ get_current_trace_id(context_'[t]) = get_current_trace_id(context_[t])
          /\ get_current_span_id(context_'[t]) = get_current_span_id(context_[t])

C34_FinishKeepsContext == [][C34_FinishStep]_vars

\* ---- Claim about the spans the registry holds (checked under SpecTrace) ----

\* C35: no call loses a span accepted into an active trace: while the trace
\* stays active its stored spans only grow at the end (also under
\* create_trace with its id), and when finish_trace moves it to the finished
\* list its exported record carries every one of them.
C35_NoSpanLostStep ==
    \A id \in DOMAIN active_traces_ :
       LET stored == active_traces_[id].spans_
       IN IF id \in DOMAIN active_traces_'
          THEN /\ Len(active_traces_'[id].spans_) >= Len(stored)
               /\ SubSeq(active_traces_'[id].spans_, 1, Len(stored)) = stored
          ELSE /\ lastOp'.op = "finish_trace" /\ lastOp'.trace = id
               /\ finished_traces_' # <<>>
               /\ ExportRecord(finished_traces_'[Len(finished_traces_')]).spans
                     = ExportSpans(stored)

C35_NoSpanRecordLost == [][C35_NoSpanLostStep]_vars

\* ---- Claim about held trace pointers (checked under SpecHeld) ----

\* C36: a thread that holds the Trace returned by get_active_trace or
\* get_finished_trace never holds a destroyed trace, whatever the other
\* threads do, and no thread is lost to a read of freed memory.
C36_HeldTraceStaysAlive ==
    \A t \in DOMAIN pc :
       /\ pc[t] = "holding" => Owns(callTrace[t][1])
       /\ pc[t] # "crashed"

\* ---- Claim about a failing sink (checked under SpecSink) ----

\* C37: when finish_trace(id) has called its processor and ended, whatever
\* process_trace did, no failure reaches the caller, the trace is no longer
\* active, it was appended to the finished list and the list is within its cap.
C37_SinkStep ==
    \A t \in Flows :
       (pc[t] = "finish_trace:export_trace" /\ pc'[t] = "idle") =>
          /\ lastOp'.op # "finish_trace:threw"
          /\ callTrace[t][1].trace_id \notin DOMAIN active_traces_'
          /\ LET all == Append(finished_traces_, callTrace[t][1])
             IN finished_traces_' = LastN(all, Min(Len(all), max_finished_traces_))
          /\ Len(finished_traces_') <= max_finished_traces_

C37_SinkFailureKeepsRegistry == [][C37_SinkStep]_vars

\* ---- Claim about the SessionCache's bound (checked under SpecCache) ----

\* C38: with a max_size of at least 1, the cache never holds more than
\* max_size sessions and the session map and the access-time map have the
\* same keys; and a put on a full cache evicts exactly one entry, one whose
\* access time no other entry's is older than, before it stores its own.
C38_Bounded ==
    max_size_ >= 1 =>
       /\ Cardinality(DOMAIN cache_) <= max_size_
       /\ DOMAIN cache_ = DOMAIN access_times_

C38_EvictionStep ==
    (max_size_ >= 1 /\ lastOp'.op = "cache_put" /\ Cardinality(DOMAIN cache_) >= max_size_) =>
       \E e \in DOMAIN cache_ :
          /\ \A j \in DOMAIN access_times_ : access_times_[e] <= access_times_[j]
          /\ DOMAIN cache_' = (DOMAIN cache_ \ {e}) \cup {lastOp'.trace}
          /\ DOMAIN access_times_' = (DOMAIN access_times_ \ {e}) \cup {lastOp'.trace}

C38_CacheStaysBounded == []C38_Bounded /\ [][C38_EvictionStep]_vars

\* A put of id 3 at time 2 found the cache full with two sessions and evicted
\* the older one; the younger one and the new one are stored.
C38_Witness ==
    /\ lastOp.op = "cache_put" /\ lastOp.found /\ lastOp.trace = 3
    /\ max_size_ = 2
    /\ DOMAIN cache_ = {2, 3}
    /\ access_times_[2] = 2 /\ access_times_[3] = 2

\* ---- Claim about the SessionManager (checked under SpecManager) ----

\* The ids for which a get_or_create_session call has returned a session.
ReturnedIds ==
    UNION {{received[t][i].session_id :
               i \in {k \in DOMAIN received[t] : received[t][k].session # NoObject}} :
           t \in DOMAIN received}

\* C39: get_or_create_session yields one session per id: all calls with the
\* same id, from any thread, return the same Session object; the session
\* stored under an id is never replaced; and the session count is the number
\* of ids for which a call has returned.
C39_OnePerId ==
    /\ \A t, u \in DOMAIN received :
          \A i \in DOMAIN received[t] : \A j \in DOMAIN received[u] :
             (/\ received[t][i].session_id = received[u][j].session_id
              /\ received[t][i].session # NoObject
              /\ received[u][j].session # NoObject) =>
                received[t][i].session = received[u][j].session
    /\ get_session_count = Cardinality(ReturnedIds)

C39_StoredStep ==
    \A id \in DOMAIN sessions_ : id \in DOMAIN sessions_' /\ sessions_'[id] = sessions_[id]

C39_OneSessionPerId == []C39_OnePerId /\ [][C39_StoredStep]_vars

====
